---- MODULE Spec2Model ----
(***************************************************************************)
(* State-machine model of the gpt-load proxy request engine:               *)
(*   internal/proxy/server.go            HandleProxy, executeRequestWithRetry, logRequest *)
(*   internal/proxy/response_handlers.go handleStreamingResponse, handleNormalResponse    *)
(*   internal/proxy/response_validator.go ResponseValidator                *)
(*   prompt injector (PromptInjector) and context manager (ContextManager) *)
(*                                                                         *)
(* Texts are sequences of code points; a JSON body is a record of the keys *)
(* the code looks at.                                                      *)
(***************************************************************************)
EXTENDS Integers, Sequences, FiniteSets, TLC

VARIABLES
    req,                  \* per inbound request: the engine's locals and what the outside observed
    settings,             \* settingsManager.GetSettings(): the hot-reloadable system settings
    punctuationEndCount,  \* ResponseValidator.punctuationEndCount (one validator per ProxyServer)
    keyCursor,            \* keyProvider: position of the next key SelectKey hands out
    harness               \* inputs and outputs of the pure functions exercised on their own

vars == <<req, settings, punctuationEndCount, keyCursor, harness>>

(***************************************************************************)
(* Bounds of the model.                                                    *)
(***************************************************************************)
MaxRetriesBound == 1      \* group.EffectiveConfig.MaxRetries ranges over 0..MaxRetriesBound
MaxFrags == 3             \* fragments per generated text given to the pure functions
MaxTurns == 2             \* turns in a request body given to BuildRetryRequest
MaxCalls == 4             \* calls of CheckPunctuationHeuristic made in a row
ChainRetries == 2         \* MaxRetries of the group in ChainSpec

(***************************************************************************)
(* Texts.  A text is a sequence of code points, each a one-character       *)
(* string.  Go's len(string) counts bytes, []rune(string) code points.     *)
(***************************************************************************)
\* Code points outside ASCII are written by number: "U3002" is the ideographic full
\* stop, "UFF1F" and "UFF01" the fullwidth question and exclamation marks, "U2026"
\* the horizontal ellipsis; each takes 3 bytes in UTF-8.
Utf8Width(c) == IF c \in {"U3002", "UFF1F", "UFF01", "U2026"} THEN 3 ELSE 1

RECURSIVE ByteLen(_)
ByteLen(s) == IF s = <<>> THEN 0 ELSE Utf8Width(Head(s)) + ByteLen(Tail(s))

RuneLen(s) == Len(s)

IsSpace(c) == c \in {" ", "\n"}

\* strings.TrimSpace
RECURSIVE TrimLeft(_)
TrimLeft(s) == IF s # <<>> /\ IsSpace(Head(s)) THEN TrimLeft(Tail(s)) ELSE s

RECURSIVE TrimRight(_)
TrimRight(s) ==
    IF s # <<>> /\ IsSpace(s[Len(s)]) THEN TrimRight(SubSeq(s, 1, Len(s) - 1)) ELSE s

TrimSpace(s) == TrimRight(TrimLeft(s))

\* strings.HasSuffix, strings.TrimSuffix, strings.Contains
HasSuffix(s, t) == Len(s) >= Len(t) /\ SubSeq(s, Len(s) - Len(t) + 1, Len(s)) = t

TrimSuffix(s, t) == IF HasSuffix(s, t) THEN SubSeq(s, 1, Len(s) - Len(t)) ELSE s

Contains(s, t) == \E i \in 0..(Len(s) - Len(t)) : SubSeq(s, i + 1, i + Len(t)) = t

RECURSIVE Concat(_)
Concat(ss) == IF ss = <<>> THEN <<>> ELSE Head(ss) \o Concat(Tail(ss))

\* prompt_injector: const CompletionToken = "[done]"
CompletionToken == <<"[", "d", "o", "n", "e", "]">>

\* The literal of the synthetic user turn ("Continue exactly where you left off ...").
ContinueText == <<"C">>

(***************************************************************************)
(* JSON bodies.  A body is a record of what the code reads in it:          *)
(*   json        json.Unmarshal into a map succeeds                        *)
(*   fmt         "raw" as received, "canon" as written by json.Marshal     *)
(*   hasMsgs/msgs, hasContents/contents   the "messages" / "contents" arrays *)
(*   sysKind/sysDir     top-level "system" and the directives appended to it *)
(*   instrKind/instrDir "systemInstruction" and the directive parts in it  *)
(*   snake       the legacy "system_instruction" key is present            *)
(*   shape/parts which of choices / candidates / content carries text, and *)
(*               the text of the first choice or candidate, part by part   *)
(*   zeroTok, blocked, finish   the byte patterns the validator looks for  *)
(*   lines       the lines of a server-sent-event body                     *)
(* A turn of "messages"/"contents" is [role, form, text, dir]: form is the *)
(* shape of its content (string, blocks, parts), dir the number of copies  *)
(* of SystemPromptText in it.                                              *)
(***************************************************************************)
BlankDoc ==
    [json |-> TRUE, fmt |-> "raw",
     hasMsgs |-> FALSE, msgs |-> <<>>, hasContents |-> FALSE, contents |-> <<>>,
     sysKind |-> "absent", sysDir |-> 0,
     instrKind |-> "absent", instrDir |-> 0, snake |-> FALSE,
     shape |-> "none", parts |-> <<>>,
     zeroTok |-> FALSE, blocked |-> FALSE, finish |-> "none",
     lines |-> <<>>]

Turn(role, form, text, dir) == [role |-> role, form |-> form, text |-> text, dir |-> dir]

\* json.Marshal of the decoded map
Marshal(d) == [d EXCEPT !.fmt = "canon"]

Min(S) == CHOOSE x \in S : \A y \in S : x <= y

(***************************************************************************)
(* PromptInjector                                                          *)
(***************************************************************************)
injectOpenAIPrompt(request) ==
    IF ~request.hasMsgs THEN Marshal(request)
    ELSE LET messages == request.msgs
             sys == {i \in 1..Len(messages) :
                        messages[i].role = "system" /\ messages[i].form = "string"}
         IN IF sys # {}
            THEN Marshal([request EXCEPT !.msgs[Min(sys)].dir = @ + 1])
            ELSE Marshal([request EXCEPT
                            !.msgs = <<Turn("system", "string", <<>>, 1)>> \o messages])

injectGeminiPrompt(request) ==
    LET merged == IF request.snake
                  THEN [request EXCEPT
                          !.instrDir = IF request.instrKind = "map" THEN @ ELSE 0,
                          !.instrKind = "map",
                          !.snake = FALSE]
                  ELSE request
    IN IF merged.instrKind = "map"
       THEN Marshal([merged EXCEPT !.instrDir = @ + 1])
       ELSE Marshal([merged EXCEPT !.instrKind = "map", !.instrDir = 1])

injectAnthropicPrompt(request) ==
    CASE request.sysKind = "string" -> Marshal([request EXCEPT !.sysDir = @ + 1])
      [] request.sysKind = "absent" -> Marshal([request EXCEPT !.sysKind = "string", !.sysDir = 1])
      [] OTHER -> Marshal(request)

injectGenericPrompt(request) ==
    CASE request.hasMsgs -> injectOpenAIPrompt(request)
      [] request.hasContents -> injectGeminiPrompt(request)
      [] request.sysKind # "absent" -> injectAnthropicPrompt(request)
      [] OTHER -> Marshal(request)

\* Returns [err, body]: err when the body does not parse.
InjectCompletionPrompt(requestBody, provider) ==
    IF ~requestBody.json THEN [err |-> TRUE, body |-> requestBody]
    ELSE [err |-> FALSE,
          body |-> CASE provider = "openai" -> injectOpenAIPrompt(requestBody)
                     [] provider = "gemini" -> injectGeminiPrompt(requestBody)
                     [] provider = "anthropic" -> injectAnthropicPrompt(requestBody)
                     [] OTHER -> injectGenericPrompt(requestBody)]

\* A clean that does not trim again after taking the token off.
cleanTokenNoSecondTrim(text) ==
    LET cleaned == TrimSpace(text)
    IN IF HasSuffix(cleaned, CompletionToken)
       THEN TrimSuffix(cleaned, CompletionToken)
       ELSE cleaned

cleanTokenFromText(text) ==
    LET cleaned == TrimSpace(text)
    IN IF HasSuffix(cleaned, CompletionToken)
       THEN TrimSpace(TrimSuffix(cleaned, CompletionToken))
       ELSE cleaned

\* removeXToken mutate the decoded map; here each returns the map after the call,
\* and "modified" is that the map changed.
removeOpenAIToken(response) ==
    IF response.shape = "openai" /\ Len(response.parts) > 0
    THEN [response EXCEPT !.parts[1] = cleanTokenFromText(@)]
    ELSE response

removeGeminiToken(response) ==
    IF response.shape = "gemini"
    THEN [response EXCEPT !.parts = [i \in DOMAIN @ |-> cleanTokenFromText(@[i])]]
    ELSE response

removeAnthropicToken(response) ==
    IF response.shape = "anthropic"
    THEN [response EXCEPT !.parts = [i \in DOMAIN @ |-> cleanTokenFromText(@[i])]]
    ELSE response

\* An auto-detection that only tries the choices shape.
removeGenericTokenChoicesOnly(response) ==
    IF response.shape = "openai" /\ Len(response.parts) > 0
    THEN [response EXCEPT !.parts[1] = cleanTokenFromText(@)]
    ELSE response

removeGenericToken(response) ==
    CASE removeOpenAIToken(response) # response -> removeOpenAIToken(response)
      [] removeGeminiToken(response) # response -> removeGeminiToken(response)
      [] OTHER -> removeAnthropicToken(response)

RemoveCompletionToken(responseBody, provider) ==
    IF ~responseBody.json THEN responseBody
    ELSE LET response ==
                 CASE provider = "openai" -> removeOpenAIToken(responseBody)
                   [] provider = "gemini" -> removeGeminiToken(responseBody)
                   [] provider = "anthropic" -> removeAnthropicToken(responseBody)
                   [] OTHER -> removeGenericToken(responseBody)
         IN IF response # responseBody THEN Marshal(response) ELSE responseBody

(***************************************************************************)
(* ResponseValidator                                                       *)
(***************************************************************************)
Result(valid, type, message, retry) ==
    [IsValid |-> valid, ErrorType |-> type, ErrorMessage |-> message, ShouldRetry |-> retry]

ValidResult == Result(TRUE, "", "", FALSE)

AbnormalReasons ==
    {"SAFETY", "RECITATION", "OTHER", "ERROR", "PROHIBITED_CONTENT", "SPII",
     "MALFORMED_FUNCTION_CALL"}

hasEmptyContent(response) ==
    CASE response.shape = "openai" /\ Len(response.parts) > 0 ->
             TrimSpace(response.parts[1]) = <<>>
      [] response.shape = "gemini" /\ Len(response.parts) > 0 ->
             TrimSpace(response.parts[1]) = <<>>
      [] response.shape = "anthropic" /\ Len(response.parts) > 0 ->
             TrimSpace(response.parts[1]) = <<>>
      [] OTHER -> FALSE

isEmptyResponse(body) == body.zeroTok \/ (body.json /\ hasEmptyContent(body))

isBlockedResponse(body) == body.blocked

getAbnormalFinishReason(body) == IF body.finish \in AbnormalReasons THEN body.finish ELSE ""

\* bytes.Contains(body, "[done]"): the token anywhere in the body's bytes
\* (SystemPromptText itself contains the token).
TurnsHaveToken(turns) ==
    \E i \in 1..Len(turns) : turns[i].dir > 0 \/ Contains(turns[i].text, CompletionToken)

BodyHasToken(body) ==
    \/ \E i \in 1..Len(body.parts) : Contains(body.parts[i], CompletionToken)
    \/ TurnsHaveToken(body.msgs) \/ TurnsHaveToken(body.contents)
    \/ body.sysDir > 0 \/ body.instrDir > 0
    \/ \E i \in 1..Len(body.lines) : body.lines[i] = "payloadTok"

hasNonEmptyContent(body) ==
    /\ body.json
    /\ CASE body.shape = "openai" /\ Len(body.parts) > 0 -> TrimSpace(body.parts[1]) # <<>>
         [] body.shape \in {"gemini", "anthropic"} ->
                \E i \in 1..Len(body.parts) : TrimSpace(body.parts[i]) # <<>>
         [] OTHER -> FALSE

isIncompleteResponse(body) ==
    body.finish = "stop" /\ hasNonEmptyContent(body) /\ ~BodyHasToken(body)

\* A validator that looks at the finish reason before anything else.
ValidateResponseFinishFirst(body, provider, isStream) ==
    CASE isStream -> ValidResult
      [] getAbnormalFinishReason(body) # "" ->
             Result(FALSE, "ABNORMAL_FINISH", "Response ended with abnormal reason", TRUE)
      [] isEmptyResponse(body) ->
             Result(FALSE, "EMPTY_RESPONSE",
                    "AI service returned empty content (completion_tokens: 0)", TRUE)
      [] isBlockedResponse(body) ->
             Result(FALSE, "BLOCKED_CONTENT", "Content was blocked by safety filters", TRUE)
      [] isIncompleteResponse(body) ->
             Result(FALSE, "INCOMPLETE_RESPONSE",
                    "Response appears incomplete (missing completion token)", TRUE)
      [] OTHER -> ValidResult

ValidateResponse(body, provider, isStream) ==
    CASE isStream -> ValidResult
      [] isEmptyResponse(body) ->
             Result(FALSE, "EMPTY_RESPONSE",
                    "AI service returned empty content (completion_tokens: 0)", TRUE)
      [] isBlockedResponse(body) ->
             Result(FALSE, "BLOCKED_CONTENT", "Content was blocked by safety filters", TRUE)
      [] getAbnormalFinishReason(body) # "" ->
             Result(FALSE, "ABNORMAL_FINISH", "Response ended with abnormal reason", TRUE)
      [] isIncompleteResponse(body) ->
             Result(FALSE, "INCOMPLETE_RESPONSE",
                    "Response appears incomplete (missing completion token)", TRUE)
      [] OTHER -> ValidResult

\* Lines of an event stream: "payload" is a data line with content, "payloadTok" a
\* data line whose content ends in the completion token, "DONE" the line
\* "data: [DONE]", "empty" a data line without content, "comment" any other line.
StreamIsDone(body) == \E i \in 1..Len(body.lines) : body.lines[i] = "DONE"

hasNonEmptyStreamContent(body, provider) ==
    \E i \in 1..Len(body.lines) : body.lines[i] \in {"payload", "payloadTok"}

ValidateStreamResponse(body, provider) ==
    CASE ~hasNonEmptyStreamContent(body, provider) ->
             Result(FALSE, "EMPTY_RESPONSE",
                    "Stream response contained no meaningful content.", TRUE)
      [] ~StreamIsDone(body) ->
             Result(FALSE, "INCOMPLETE_STREAM",
                    "Stream ended prematurely without the [DONE] marker.", TRUE)
      [] OTHER -> ValidResult

\* Called by response_handlers.go; its definition is not among the sources.  After
\* the specification: stream-truncated when no terminal marker line is present,
\* empty-content when no data line carries payload, valid otherwise.
ValidateStreamResponseWithConfig(body, provider, enableCompletionCheck) ==
    CASE ~StreamIsDone(body) ->
             Result(FALSE, "INCOMPLETE_STREAM",
                    "Stream ended prematurely without the [DONE] marker.", TRUE)
      [] ~hasNonEmptyStreamContent(body, provider) ->
             Result(FALSE, "EMPTY_RESPONSE",
                    "Stream response contained no meaningful content.", TRUE)
      [] OTHER -> ValidResult

\* extractOpenAIText / extractGeminiText / extractAnthropicText / extractGenericText
\* are the same in ResponseValidator and in ContextManager.
extractOpenAIText(response) ==
    IF response.shape = "openai" /\ Len(response.parts) > 0 THEN response.parts[1] ELSE <<>>

extractGeminiText(response) ==
    IF response.shape = "gemini" THEN Concat(response.parts) ELSE <<>>

extractAnthropicText(response) ==
    IF response.shape = "anthropic" THEN Concat(response.parts) ELSE <<>>

extractGenericText(response) ==
    CASE extractOpenAIText(response) # <<>> -> extractOpenAIText(response)
      [] extractGeminiText(response) # <<>> -> extractGeminiText(response)
      [] OTHER -> extractAnthropicText(response)

extractResponseText(body, provider) ==
    IF ~body.json THEN <<>>
    ELSE CASE provider = "openai" -> extractOpenAIText(body)
           [] provider = "gemini" -> extractGeminiText(body)
           [] provider = "anthropic" -> extractAnthropicText(body)
           [] OTHER -> extractGenericText(body)

SentencePunctuation == {"U3002", "UFF1F", "UFF01", ".", "!", "?", "U2026"}

endsWithSentencePunctuation(text) ==
    LET trimmed == TrimSpace(text)
    IN trimmed # <<>> /\ trimmed[Len(trimmed)] \in SentencePunctuation

\* A heuristic that forgets to reset the counter when it returns true.
CheckPunctuationHeuristicNoReset(count, body, provider, enableHeuristic) ==
    LET text == extractResponseText(body, provider)
    IN CASE ~enableHeuristic -> [ret |-> FALSE, count |-> count]
         [] text = <<>> -> [ret |-> FALSE, count |-> 0]
         [] ~endsWithSentencePunctuation(text) -> [ret |-> FALSE, count |-> 0]
         [] count + 1 >= 3 -> [ret |-> TRUE, count |-> count + 1]
         [] OTHER -> [ret |-> FALSE, count |-> count + 1]

\* A heuristic that is satisfied with two punctuation endings in a row.
CheckPunctuationHeuristicTwo(count, body, provider, enableHeuristic) ==
    LET text == extractResponseText(body, provider)
    IN CASE ~enableHeuristic -> [ret |-> FALSE, count |-> count]
         [] text = <<>> -> [ret |-> FALSE, count |-> 0]
         [] ~endsWithSentencePunctuation(text) -> [ret |-> FALSE, count |-> 0]
         [] count + 1 >= 2 -> [ret |-> TRUE, count |-> 0]
         [] OTHER -> [ret |-> FALSE, count |-> count + 1]

\* Returns [ret, count]: the result and the value left in punctuationEndCount.
CheckPunctuationHeuristic(count, body, provider, enableHeuristic) ==
    LET text == extractResponseText(body, provider)
    IN CASE ~enableHeuristic -> [ret |-> FALSE, count |-> count]
         [] text = <<>> -> [ret |-> FALSE, count |-> 0]
         [] ~endsWithSentencePunctuation(text) -> [ret |-> FALSE, count |-> 0]
         [] count + 1 >= 3 -> [ret |-> TRUE, count |-> 0]
         [] OTHER -> [ret |-> FALSE, count |-> count + 1]

(***************************************************************************)
(* ContextManager                                                          *)
(***************************************************************************)
ExtractAccumulatedText(responseBody, provider) == extractResponseText(responseBody, provider)

\* An insertion after the first user turn instead of the last.
insertContextAfterFirstUser(messages, contextMessages) ==
    LET users == {i \in 1..Len(messages) : messages[i].role = "user"}
    IN IF users # {}
       THEN LET firstUserIndex == CHOOSE i \in users : \A j \in users : i <= j
            IN SubSeq(messages, 1, firstUserIndex) \o contextMessages
                   \o SubSeq(messages, firstUserIndex + 1, Len(messages))
       ELSE messages \o contextMessages

insertContextAfterLastUser(messages, contextMessages) ==
    LET users == {i \in 1..Len(messages) : messages[i].role = "user"}
    IN IF users # {}
       THEN LET lastUserIndex == CHOOSE i \in users : \A j \in users : j <= i
            IN SubSeq(messages, 1, lastUserIndex) \o contextMessages
                   \o SubSeq(messages, lastUserIndex + 1, Len(messages))
       ELSE messages \o contextMessages

buildOpenAIRetryRequest(originalRequest, accumulatedText) ==
    IF ~originalRequest.hasMsgs THEN Marshal(originalRequest)
    ELSE Marshal([originalRequest EXCEPT
                    !.msgs = insertContextAfterLastUser(@,
                        <<Turn("assistant", "string", accumulatedText, 0),
                          Turn("user", "string", ContinueText, 0)>>)])

buildGeminiRetryRequest(originalRequest, accumulatedText) ==
    LET contents == IF originalRequest.hasContents THEN originalRequest.contents ELSE <<>>
    IN Marshal([originalRequest EXCEPT
                  !.hasContents = TRUE,
                  !.contents = insertContextAfterLastUser(contents,
                        <<Turn("model", "parts", accumulatedText, 0),
                          Turn("user", "parts", ContinueText, 0)>>)])

buildAnthropicRetryRequest(originalRequest, accumulatedText) ==
    IF ~originalRequest.hasMsgs THEN Marshal(originalRequest)
    ELSE Marshal([originalRequest EXCEPT
                    !.msgs = insertContextAfterLastUser(@,
                        <<Turn("assistant", "blocks", accumulatedText, 0),
                          Turn("user", "blocks", ContinueText, 0)>>)])

buildGenericRetryRequest(originalRequest, accumulatedText) ==
    CASE originalRequest.hasMsgs -> buildOpenAIRetryRequest(originalRequest, accumulatedText)
      [] originalRequest.hasContents -> buildGeminiRetryRequest(originalRequest, accumulatedText)
      [] OTHER -> Marshal(originalRequest)

\* Returns [err, body]: err when the body does not parse.
BuildRetryRequest(originalBody, accumulatedText, provider) ==
    CASE TrimSpace(accumulatedText) = <<>> -> [err |-> FALSE, body |-> originalBody]
      [] ~originalBody.json -> [err |-> TRUE, body |-> originalBody]
      [] OTHER ->
           [err |-> FALSE,
            body |-> CASE provider = "openai" ->
                              buildOpenAIRetryRequest(originalBody, accumulatedText)
                       [] provider = "gemini" ->
                              buildGeminiRetryRequest(originalBody, accumulatedText)
                       [] provider = "anthropic" ->
                              buildAnthropicRetryRequest(originalBody, accumulatedText)
                       [] OTHER -> buildGenericRetryRequest(originalBody, accumulatedText)]

(***************************************************************************)
(* The engine: HandleProxy and executeRequestWithRetry.                    *)
(*                                                                         *)
(* req[r] holds, for inbound request r,                                    *)
(*   pc            "idle", "start" (HandleProxy not yet run), "attempt"    *)
(*                 (at the entry of executeRequestWithRetry), "dispatched" *)
(*                 (client.Do in flight), "respond" (before                *)
(*                 handleNormalResponse), "done"                           *)
(*   provider, MaxRetries, isStream, flusher, relay   the group's channel  *)
(*                 type and retry bound, the request's mode, whether the   *)
(*                 client writer is an http.Flusher, and which of the two  *)
(*                 handleStreamingResponse definitions is built            *)
(*   inbound, finalBody     the body read from the client and the body     *)
(*                 HandleProxy passes on                                   *)
(*   bodyBytes, retryCount, retryErrors, accumulatedText   the parameters  *)
(*                 of the current executeRequestWithRetry call             *)
(*   apiKey, respStatus, respBody, respRead   the attempt's locals         *)
(*   relayed       the writes handleStreamingResponse made in this attempt *)
(*   loaded        the value of punctuationEndCount this attempt has read  *)
(*   validationResult  the result of ValidateResponse (line 267) or of       *)
(*                 handleStreamingResponse (line 344); valid when not run  *)
(*   cfg           the settings read at line 266, while the attempt is     *)
(*                 before handleNormalResponse                             *)
(* and what the collaborators saw:                                         *)
(*   dispatched    bodies sent upstream, in order                          *)
(*   received      upstream bodies read by the engine, one per attempt that got one *)
(*   status        status set on the client response (0: none)             *)
(*   written       writes to the client, in order                          *)
(*   logs          records given to requestLogService.Record               *)
(*   unhealthy     keys passed to keyProvider.UpdateStatus(.., false)      *)
(*   outcome       the return taken                                        *)
(***************************************************************************)
Reqs == {1, 2}

Keys == <<"k1", "k2">>

Providers == {"openai", "gemini", "anthropic", "generic"}

NilBody == [BlankDoc EXCEPT !.json = FALSE]

\* An error message: json when json.Unmarshal into a map accepts it (an object,
\* or the literal null), fmt "raw" for the bytes as the upstream wrote them and
\* "canon" for the bytes the encoder of c.JSON writes.
ErrorText(json, text) == [json |-> json, text |-> text, fmt |-> "raw"]

NoMessage == ErrorText(FALSE, "")

RetryError(status, message, key, attempt) ==
    [StatusCode |-> status, ErrorMessage |-> message, KeyValue |-> key, Attempt |-> attempt]

\* logRequest: IsSuccess is finalError == nil && statusCode < 400
LogEntry(status, retries, hasError, key) ==
    [StatusCode |-> status, Retries |-> retries,
     IsSuccess |-> (~hasError /\ status < 400), KeyValue |-> key]

\* A write of a body by c.Writer.Write, or of an error by response.Error / c.JSON.
BodyWrite(doc) == [kind |-> "body", code |-> 0, err |-> "", doc |-> doc, msg |-> NoMessage]

ErrorWrite(code, err) ==
    [kind |-> "error", code |-> code, err |-> err, doc |-> NilBody, msg |-> NoMessage]

\* c.JSON(code, obj): the decoded value, encoded again
JSONWrite(code, obj) ==
    [kind |-> "json", code |-> code, err |-> "", doc |-> NilBody,
     msg |-> [obj EXCEPT !.fmt = "canon"]]

\* response.Error(c, NewAPIErrorWithUpstream(code, "UPSTREAM_ERROR", message))
UpstreamErrorWrite(code, message) ==
    [ErrorWrite(code, "UPSTREAM_ERROR") EXCEPT !.msg = message]

\* A cap that slices the string by bytes: the code points that fit in max bytes.
RECURSIVE TakeBytes(_, _)
TakeBytes(s, n) ==
    IF s = <<>> \/ Utf8Width(Head(s)) > n THEN <<>>
    ELSE <<Head(s)>> \o TakeBytes(Tail(s), n - Utf8Width(Head(s)))

CapAccumulatedBytes(text, max) ==
    IF max > 0 /\ ByteLen(text) > max THEN TakeBytes(text, max) ELSE text

\* server.go 289-295
CapAccumulated(text, max) ==
    IF max > 0 /\ ByteLen(text) > max
    THEN IF RuneLen(text) > max THEN SubSeq(text, 1, max) ELSE text
    ELSE text

\* A continuation step that sends an empty body when BuildRetryRequest fails.
ValidationRetryNoFallback(cfg, requestBody, responseBody, accumulatedText, provider) ==
    LET bodyBytes == responseBody
    IN IF cfg.EnableContextRetry
       THEN LET currentText == ExtractAccumulatedText(bodyBytes, provider)
                newAccumulatedText ==
                    CapAccumulated(accumulatedText \o currentText, cfg.MaxAccumulatedChars)
                built == BuildRetryRequest(bodyBytes, newAccumulatedText, provider)
            IN [acc |-> newAccumulatedText,
                body |-> IF TrimSpace(newAccumulatedText) # <<>>
                         THEN IF built.err THEN NilBody ELSE built.body
                         ELSE bodyBytes]
       ELSE [acc |-> accumulatedText, body |-> bodyBytes]

\* server.go 280-313: the body and accumulated text of the next attempt after a
\* validation failure.  Inside the block opened at line 257 the name bodyBytes is
\* the upstream response body read at line 258, which hides the request body.
ValidationRetryShared(cfg, requestBody, responseBody, accumulatedText, provider) ==
    LET bodyBytes == responseBody
        shared == req[1].accumulatedText \o req[2].accumulatedText
    IN IF cfg.EnableContextRetry
       THEN LET currentText == ExtractAccumulatedText(bodyBytes, provider)
                newAccumulatedText ==
                    CapAccumulated(shared \o currentText, cfg.MaxAccumulatedChars)
                built == BuildRetryRequest(bodyBytes, newAccumulatedText, provider)
            IN [acc |-> newAccumulatedText,
                body |-> IF TrimSpace(newAccumulatedText) # <<>>
                         THEN IF built.err THEN bodyBytes ELSE built.body
                         ELSE bodyBytes]
       ELSE [acc |-> shared, body |-> bodyBytes]

ValidationRetry(cfg, requestBody, responseBody, accumulatedText, provider) ==
    LET bodyBytes == responseBody
    IN IF cfg.EnableContextRetry
       THEN LET currentText == ExtractAccumulatedText(bodyBytes, provider)
                newAccumulatedText ==
                    CapAccumulated(accumulatedText \o currentText, cfg.MaxAccumulatedChars)
                built == BuildRetryRequest(bodyBytes, newAccumulatedText, provider)
            IN [acc |-> newAccumulatedText,
                body |-> IF TrimSpace(newAccumulatedText) # <<>>
                         THEN IF built.err THEN bodyBytes ELSE built.body
                         ELSE bodyBytes]
       ELSE [acc |-> accumulatedText, body |-> bodyBytes]

\* A retry bound that is off by one.
RetriesExceededLate(retryCount, maxRetries) == retryCount > maxRetries + 1

\* server.go 123
RetriesExceeded(retryCount, maxRetries) == retryCount > maxRetries

\* A failure test that counts every status of 400 or more.
IsHTTPFailureAll(status) == status >= 400

\* server.go 212: the status makes the response a failure to retry
IsHTTPFailure(status) == status >= 400 /\ status # 404

\* keyProvider.SelectKey: the pool hands its keys out in rotation.
SelectKey(cursor) == Keys[(cursor % Len(Keys)) + 1]

\* A retry that enters the next attempt with the index of the failed one.
RetrySameIndex(q, status, message, body, acc) ==
    [q EXCEPT !.pc = "attempt",
              !.unhealthy = Append(@, q.apiKey),
              !.retryErrors = Append(@, RetryError(status, message, q.apiKey, q.retryCount + 1)),
              !.bodyBytes = body,
              !.accumulatedText = acc]

\* A retry that leaves the key as it is.
RetryUnmarked(q, status, message, body, acc) ==
    [q EXCEPT !.pc = "attempt",
              !.retryErrors = Append(@, RetryError(status, message, q.apiKey, q.retryCount + 1)),
              !.retryCount = @ + 1,
              !.bodyBytes = body,
              !.accumulatedText = acc]

\* server.go 219-253, 278-324, 350-363: mark the key, append the record, recurse.
RetryOrdinalFromZero(q, status, message, body, acc) ==
    [q EXCEPT !.pc = "attempt",
              !.unhealthy = Append(@, q.apiKey),
              !.retryErrors = Append(@, RetryError(status, message, q.apiKey, q.retryCount)),
              !.retryCount = @ + 1,
              !.bodyBytes = body,
              !.accumulatedText = acc]

Retry(q, status, message, body, acc) ==
    [q EXCEPT !.pc = "attempt",
              !.unhealthy = Append(@, q.apiKey),
              !.retryErrors = Append(@, RetryError(status, message, q.apiKey, q.retryCount + 1)),
              !.retryCount = @ + 1,
              !.bodyBytes = body,
              !.accumulatedText = acc]

Finish(q, outcome) == [q EXCEPT !.pc = "done", !.outcome = outcome]

\* What has been read of a body when its read fails: all lines but the last, and
\* nothing of a body that comes as one JSON document.
Partial(body) ==
    IF body.lines = <<>> THEN NilBody ELSE [body EXCEPT !.lines = SubSeq(@, 1, Len(@) - 1)]

\* The first n chunks of a body; a body without lines is one chunk.
Chunks(body, n) ==
    CASE body.lines # <<>> -> [body EXCEPT !.lines = SubSeq(@, 1, n)]
      [] n > 0 -> body
      [] OTHER -> NilBody

\* The chunk whose write to the client fails, when one does: the second, or the
\* only one.
FailedChunk(body) == IF Len(body.lines) >= 2 THEN 2 ELSE 1

StreamError(message, retry) == Result(FALSE, "STREAM_ERROR", message, retry)

\* response_handlers.go 15-89.  Returns the validation result, the body handed back
\* to the engine and the writes made to the client.
handleStreamingResponseBuffered(flusher, upstream, readErr, writeOk, cfg, provider) ==
    IF ~flusher
    THEN IF readErr
         THEN [result |-> StreamError("Fallback failed", TRUE), body |-> NilBody, writes |-> <<>>]
         ELSE [result |-> ValidResult, body |-> upstream,
               writes |-> IF writeOk THEN <<BodyWrite(upstream)>> ELSE <<>>]
    ELSE IF readErr
         THEN [result |-> StreamError("read", TRUE), body |-> Partial(upstream), writes |-> <<>>]
         ELSE LET validationResult ==
                      IF cfg.EnableAdvancedRetry
                      THEN ValidateStreamResponseWithConfig(upstream, provider,
                                                            cfg.EnableCompletionCheck)
                      ELSE ValidResult
                  cleanedBody ==
                      IF cfg.EnableCompletionCheck
                      THEN RemoveCompletionToken(upstream, provider)
                      ELSE upstream
              IN CASE ~validationResult.IsValid ->
                          [result |-> validationResult, body |-> upstream, writes |-> <<>>]
                   [] ~writeOk ->
                          [result |-> Result(FALSE, "STREAM_WRITE_ERROR", "write", FALSE),
                           body |-> upstream, writes |-> <<>>]
                   [] OTHER ->
                          [result |-> validationResult, body |-> upstream,
                           writes |-> <<BodyWrite(cleanedBody)>>]

\* A relay that hands the client the chunk whose read failed.
handleStreamingResponseTeeAhead(flusher, upstream, readErr, writeOk, cfg, provider) ==
    IF ~flusher
    THEN IF readErr
         THEN [result |-> StreamError("Fallback failed", TRUE), body |-> NilBody, writes |-> <<>>]
         ELSE [result |-> ValidResult, body |-> upstream,
               writes |-> IF writeOk THEN <<BodyWrite(upstream)>> ELSE <<>>]
    ELSE CASE ~writeOk ->
                  [result |-> StreamError("write", TRUE),
                   body |-> Chunks(upstream, FailedChunk(upstream)),
                   writes |-> IF FailedChunk(upstream) > 1
                              THEN <<BodyWrite(Chunks(upstream, FailedChunk(upstream) - 1))>>
                              ELSE <<>>]
           [] readErr ->
                  [result |-> StreamError("read", TRUE), body |-> Partial(upstream),
                   writes |-> <<BodyWrite(upstream)>>]
           [] OTHER ->
                  [result |-> IF cfg.EnableAdvancedRetry
                              THEN ValidateStreamResponse(upstream, provider)
                              ELSE ValidResult,
                   body |-> upstream, writes |-> <<BodyWrite(upstream)>>]

\* The second handleStreamingResponse of the tree (relay through io.TeeReader).
handleStreamingResponseTee(flusher, upstream, readErr, writeOk, cfg, provider) ==
    IF ~flusher
    THEN IF readErr
         THEN [result |-> StreamError("Fallback failed", TRUE), body |-> NilBody, writes |-> <<>>]
         ELSE [result |-> ValidResult, body |-> upstream,
               writes |-> IF writeOk THEN <<BodyWrite(upstream)>> ELSE <<>>]
    ELSE CASE ~writeOk ->
                  \* the chunk whose write fails is in the buffer, the ones before
                  \* it have reached the client
                  [result |-> StreamError("write", TRUE),
                   body |-> Chunks(upstream, FailedChunk(upstream)),
                   writes |-> IF FailedChunk(upstream) > 1
                              THEN <<BodyWrite(Chunks(upstream, FailedChunk(upstream) - 1))>>
                              ELSE <<>>]
           [] readErr ->
                  [result |-> StreamError("read", TRUE), body |-> Partial(upstream),
                   writes |-> IF Partial(upstream).lines # <<>>
                              THEN <<BodyWrite(Partial(upstream))>> ELSE <<>>]
           [] OTHER ->
                  [result |-> IF cfg.EnableAdvancedRetry
                              THEN ValidateStreamResponse(upstream, provider)
                              ELSE ValidResult,
                   body |-> upstream, writes |-> <<BodyWrite(upstream)>>]

handleStreamingResponse(relay, flusher, upstream, readErr, writeOk, cfg, provider) ==
    IF relay = "tee"
    THEN handleStreamingResponseTee(flusher, upstream, readErr, writeOk, cfg, provider)
    ELSE handleStreamingResponseBuffered(flusher, upstream, readErr, writeOk, cfg, provider)

\* response_handlers.go 100-105
handleNormalResponseBody(cfg, body, groupType) ==
    IF cfg.EnableCompletionCheck THEN RemoveCompletionToken(body, groupType) ELSE body

(***************************************************************************)
(* Inputs.                                                                 *)
(***************************************************************************)
ShapeOf(provider) == IF provider = "generic" THEN "openai" ELSE provider

FormOf(provider) ==
    CASE provider = "gemini" -> "parts"
      [] provider = "anthropic" -> "blocks"
      [] OTHER -> "string"

Garbage == [BlankDoc EXCEPT !.json = FALSE, !.lines = <<"comment">>]

ClientRequest(provider) ==
    IF provider = "gemini"
    THEN [BlankDoc EXCEPT !.hasContents = TRUE,
                          !.contents = <<Turn("user", "parts", <<"q">>, 0)>>]
    ELSE [BlankDoc EXCEPT !.hasMsgs = TRUE,
                          !.msgs = <<Turn("user", FormOf(provider), <<"q">>, 0)>>]

InboundBodies(provider) == {ClientRequest(provider), Garbage}

Response(provider, parts, zeroTok, finish) ==
    [BlankDoc EXCEPT !.shape = ShapeOf(provider), !.parts = parts,
                     !.zeroTok = zeroTok, !.finish = finish]

\* One part for the choices shape, two for the shapes that carry a list of parts.
Split(provider, head, tail) ==
    IF ShapeOf(provider) = "openai" THEN <<head \o tail>> ELSE <<head, tail>>

ResponseBodies(provider) ==
    {Response(provider, Split(provider, <<"a">>, <<"b">> \o CompletionToken), FALSE, "stop"),
     Response(provider, <<<<>>>>, TRUE, "stop"),
     Response(provider, Split(provider, <<"a">>, <<"b">>), FALSE, "stop"),
     Response(provider, Split(provider, <<"a">>, <<"U3002">>), FALSE, "stop"),
     Response(provider, <<<<"U3002">>>>, FALSE, "SAFETY")}

NotFoundBody == BlankDoc

\* A 200 body cut off after its usage block: bytes that do not parse, with the
\* zero token count among them.
TruncatedBody == [NilBody EXCEPT !.zeroTok = TRUE]

\* Responses with a status of 400 or more other than 404: an error object as the
\* upstream formats it, the literal null, and a body that is not JSON.
ErrorResponses ==
    {[status |-> 429, errorBody |-> ErrorText(TRUE, "upstream error object")],
     [status |-> 502, errorBody |-> [ErrorText(TRUE, "null") EXCEPT !.fmt = "canon"]],
     [status |-> 503, errorBody |-> ErrorText(FALSE, "upstream error page")]}

\* The responses the test of line 212 is put to: those, and one with status 404.
StatusResponses ==
    ErrorResponses \cup {[status |-> 404, errorBody |-> ErrorText(TRUE, "upstream error object")]}

\* What client.Do and the read at line 258 give a non-streaming attempt whose
\* status is below 400 or is 404.
NormalOutcomes(provider) ==
    {[status |-> 200, body |-> b, readOk |-> TRUE] : b \in ResponseBodies(provider)}
        \cup {[status |-> 404, body |-> NotFoundBody, readOk |-> TRUE],
              [status |-> 200, body |-> TruncatedBody, readOk |-> TRUE],
              [status |-> 200, body |-> NilBody, readOk |-> FALSE]}

Stream(lines) == [BlankDoc EXCEPT !.json = FALSE, !.lines = lines]

\* Event streams, and the answer of an upstream that ignores the stream flag: one
\* JSON document.
StreamBodies(provider) ==
    {Stream(<<"payload", "payloadTok", "DONE">>), Stream(<<"payload">>), Stream(<<"DONE">>),
     Response(provider, Split(provider, <<"a">>, <<"b">> \o CompletionToken), FALSE, "stop")}

StreamOutcomes(provider) ==
    {[status |-> 200, body |-> b, readErr |-> e, writeOk |-> w] :
        b \in StreamBodies(provider), e \in BOOLEAN, w \in BOOLEAN}
        \cup {[status |-> 404, body |-> NotFoundBody, readErr |-> FALSE, writeOk |-> TRUE]}

Settings(cc, ar, ph, cr, max) ==
    [EnableCompletionCheck |-> cc, EnableAdvancedRetry |-> ar,
     EnablePunctuationHeuristic |-> ph, EnableContextRetry |-> cr,
     MaxAccumulatedChars |-> max]

SettingsProfiles ==
    {Settings(TRUE, TRUE, TRUE, TRUE, 2),
     Settings(TRUE, TRUE, FALSE, TRUE, 0),
     Settings(FALSE, TRUE, FALSE, FALSE, 0),
     Settings(TRUE, FALSE, FALSE, FALSE, 0)}

NoSettings == Settings(FALSE, FALSE, FALSE, FALSE, 0)

IdleRequest ==
    [pc |-> "idle", provider |-> "openai", MaxRetries |-> 0, isStream |-> FALSE,
     flusher |-> TRUE, relay |-> "buffered",
     inbound |-> NilBody, finalBody |-> NilBody, bodyBytes |-> NilBody,
     retryCount |-> 0, retryErrors |-> <<>>, accumulatedText |-> <<>>,
     apiKey |-> "", respStatus |-> 0, respBody |-> NilBody, respRead |-> TRUE,
     relayed |-> <<>>, loaded |-> 0, validationResult |-> ValidResult,
     cfg |-> NoSettings,
     dispatched |-> <<>>, received |-> <<>>, status |-> 0, written |-> <<>>,
     logs |-> <<>>, unhealthy |-> <<>>, outcome |-> ""]

\* The ways a request is served: buffered, or streamed with either relay, to a
\* writer that can flush or cannot.
Modes ==
    {[isStream |-> FALSE, flusher |-> TRUE, relay |-> "buffered"],
     [isStream |-> TRUE, flusher |-> TRUE, relay |-> "buffered"],
     [isStream |-> TRUE, flusher |-> TRUE, relay |-> "tee"],
     [isStream |-> TRUE, flusher |-> FALSE, relay |-> "buffered"]}

NewRequests ==
    {[IdleRequest EXCEPT !.pc = "start", !.provider = p, !.MaxRetries = k,
                         !.isStream = m.isStream, !.flusher = m.flusher, !.relay = m.relay,
                         !.inbound = b] :
        p \in Providers, k \in 0..MaxRetriesBound, m \in Modes,
        b \in UNION {InboundBodies(pp) : pp \in Providers}}

IdleHarness ==
    [pc |-> "off", provider |-> "openai", text |-> <<>>, doc |-> NilBody, acc |-> <<>>,
     out1 |-> <<>>, out2 |-> <<>>, outDoc |-> NilBody, err |-> FALSE,
     result |-> ValidResult, calls |-> <<>>]

\* The body that does not parse comes in a request that is not streamed; of the
\* generic channel type the streamed requests are served here and the others in
\* ChainSpec.
Init ==
    /\ \E q \in {n \in NewRequests : /\ (n.inbound \in InboundBodies(n.provider))
                                      /\ (n.isStream => n.inbound.json)
                                      /\ (n.provider = "generic" => n.isStream)} :
           req = [r \in Reqs |-> IF r = 1 THEN q ELSE IdleRequest]
    /\ settings \in SettingsProfiles
    /\ punctuationEndCount \in {0, 2}
    /\ keyCursor = 0
    /\ harness = IdleHarness

(***************************************************************************)
(* Actions.                                                                *)
(***************************************************************************)
Set(r, q) == req' = [req EXCEPT ![r] = q]

\* server.go 92-107.  (applyParamOverrides is taken as done: inbound is its result.)
HandleProxy(r) ==
    /\ req[r].pc = "start"
    /\ LET q == req[r]
           cfg == settings
           injected == InjectCompletionPrompt(q.inbound, q.provider)
           finalBodyBytes ==
               IF cfg.EnableCompletionCheck /\ ~injected.err THEN injected.body ELSE q.inbound
       IN Set(r, [q EXCEPT !.pc = "attempt", !.finalBody = finalBodyBytes,
                           !.bodyBytes = finalBodyBytes])
    /\ UNCHANGED <<settings, punctuationEndCount, keyCursor, harness>>

\* An exhaustion branch that answers with the first record instead of the last.
ExhaustedFirst(r) ==
    /\ req[r].pc = "attempt"
    /\ RetriesExceeded(req[r].retryCount, req[r].MaxRetries)
    /\ LET q == req[r]
           n == Len(q.retryErrors)
           lastError == q.retryErrors[1]
       IN IF n > 0
          THEN Set(r, [Finish(q, "exhausted") EXCEPT
                   !.written = Append(@,
                       IF lastError.ErrorMessage.json
                       THEN JSONWrite(lastError.StatusCode, lastError.ErrorMessage)
                       ELSE UpstreamErrorWrite(lastError.StatusCode, lastError.ErrorMessage)),
                   !.logs = Append(@, LogEntry(lastError.StatusCode, q.retryCount, TRUE,
                                               lastError.KeyValue))])
          ELSE Set(r, [Finish(q, "exhausted") EXCEPT
                   !.written = Append(@, ErrorWrite(0, "MAX_RETRIES_EXCEEDED")),
                   !.logs = Append(@, LogEntry(503, q.retryCount, TRUE, ""))])
    /\ UNCHANGED <<settings, punctuationEndCount, keyCursor, harness>>

\* server.go 123-145
Exhausted(r) ==
    /\ req[r].pc = "attempt"
    /\ RetriesExceeded(req[r].retryCount, req[r].MaxRetries)
    /\ LET q == req[r]
           n == Len(q.retryErrors)
           lastError == q.retryErrors[n]
       IN IF n > 0
          THEN Set(r, [Finish(q, "exhausted") EXCEPT
                   !.written = Append(@,
                       IF lastError.ErrorMessage.json
                       THEN JSONWrite(lastError.StatusCode, lastError.ErrorMessage)
                       ELSE UpstreamErrorWrite(lastError.StatusCode, lastError.ErrorMessage)),
                   !.logs = Append(@, LogEntry(lastError.StatusCode, q.retryCount, TRUE,
                                               lastError.KeyValue))])
          ELSE Set(r, [Finish(q, "exhausted") EXCEPT
                   !.written = Append(@, ErrorWrite(0, "MAX_RETRIES_EXCEEDED")),
                   !.logs = Append(@, LogEntry(503, q.retryCount, TRUE, ""))])
    /\ UNCHANGED <<settings, punctuationEndCount, keyCursor, harness>>

\* A failed key selection that is counted as a failed attempt and retried.
NoKeyRetry(r) ==
    /\ req[r].pc = "attempt"
    /\ ~RetriesExceeded(req[r].retryCount, req[r].MaxRetries)
    /\ LET q == req[r]
       IN Set(r, [q EXCEPT
                !.retryErrors = Append(@, RetryError(503, ErrorText(FALSE, "no keys"), "",
                                                     q.retryCount + 1)),
                !.retryCount = @ + 1])
    /\ UNCHANGED <<settings, punctuationEndCount, keyCursor, harness>>

\* server.go 147-153: SelectKey fails
NoKey(r) ==
    /\ req[r].pc = "attempt"
    /\ ~RetriesExceeded(req[r].retryCount, req[r].MaxRetries)
    /\ LET q == req[r]
       IN Set(r, [Finish(q, "nokey") EXCEPT
                !.written = Append(@, ErrorWrite(0, "NO_KEYS_AVAILABLE")),
                !.logs = Append(@, LogEntry(503, q.retryCount, TRUE, ""))])
    /\ UNCHANGED <<settings, punctuationEndCount, keyCursor, harness>>

\* server.go 155-176: BuildUpstreamURL or http.NewRequestWithContext fails
BuildFail(r) ==
    /\ req[r].pc = "attempt"
    /\ ~RetriesExceeded(req[r].retryCount, req[r].MaxRetries)
    /\ \E which \in {"urlfail", "reqfail"} :
           Set(r, [Finish(req[r], which) EXCEPT
                !.apiKey = SelectKey(keyCursor),
                !.written = Append(@, ErrorWrite(0, "INTERNAL_SERVER_ERROR"))])
    /\ keyCursor' = keyCursor + 1
    /\ UNCHANGED <<settings, punctuationEndCount, harness>>

\* server.go 147-205: a key is selected and the request is sent
DispatchReinjecting(r) ==
    /\ req[r].pc = "attempt"
    /\ ~RetriesExceeded(req[r].retryCount, req[r].MaxRetries)
    /\ LET injected == InjectCompletionPrompt(req[r].bodyBytes, req[r].provider)
           body == IF settings.EnableCompletionCheck /\ ~injected.err
                   THEN injected.body ELSE req[r].bodyBytes
       IN Set(r, [req[r] EXCEPT !.pc = "dispatched",
                                !.apiKey = SelectKey(keyCursor),
                                !.bodyBytes = body,
                                !.dispatched = Append(@, body)])
    /\ keyCursor' = keyCursor + 1
    /\ UNCHANGED <<settings, punctuationEndCount, harness>>

Dispatch(r) ==
    /\ req[r].pc = "attempt"
    /\ ~RetriesExceeded(req[r].retryCount, req[r].MaxRetries)
    /\ Set(r, [req[r] EXCEPT !.pc = "dispatched",
                             !.apiKey = SelectKey(keyCursor),
                             !.dispatched = Append(@, req[r].bodyBytes)])
    /\ keyCursor' = keyCursor + 1
    /\ UNCHANGED <<settings, punctuationEndCount, harness>>

\* server.go 213-217: the transport error is ignorable (the client went away)
ClientAbortUncounted(r) ==
    /\ req[r].pc = "dispatched"
    /\ LET q == req[r]
       IN Set(r, [Finish(q, "abort") EXCEPT
                !.logs = Append(@, LogEntry(499, q.retryCount, TRUE, q.apiKey))])
    /\ UNCHANGED <<settings, punctuationEndCount, keyCursor, harness>>

ClientAbortMarked(r) ==
    /\ req[r].pc = "dispatched"
    /\ LET q == req[r]
       IN Set(r, [Finish(q, "abort") EXCEPT
                !.unhealthy = Append(@, q.apiKey),
                !.logs = Append(@, LogEntry(499, q.retryCount + 1, TRUE, q.apiKey))])
    /\ UNCHANGED <<settings, punctuationEndCount, keyCursor, harness>>

ClientAbort(r) ==
    /\ req[r].pc = "dispatched"
    /\ LET q == req[r]
       IN Set(r, [Finish(q, "abort") EXCEPT
                !.logs = Append(@, LogEntry(499, q.retryCount + 1, TRUE, q.apiKey))])
    /\ UNCHANGED <<settings, punctuationEndCount, keyCursor, harness>>

\* server.go 219-253, err != nil
TransportError(r) ==
    /\ req[r].pc = "dispatched"
    /\ LET q == req[r]
       IN Set(r, Retry(q, 500, ErrorText(FALSE, "transport error"), q.bodyBytes,
                       q.accumulatedText))
    /\ UNCHANGED <<settings, punctuationEndCount, keyCursor, harness>>

\* server.go 219-253, status >= 400 and not 404
HTTPError(r) ==
    /\ req[r].pc = "dispatched"
    /\ \E up \in StatusResponses :
           /\ IsHTTPFailure(up.status)
           /\ LET q == req[r]
              IN Set(r, Retry(q, up.status, up.errorBody, q.bodyBytes, q.accumulatedText))
    /\ UNCHANGED <<settings, punctuationEndCount, keyCursor, harness>>

\* A success log that reports the attempt index instead of the number of dispatches.
SucceedIndex(q, status) ==
    [q EXCEPT !.logs = Append(@, LogEntry(status, q.retryCount, FALSE, q.apiKey)),
              !.status = status]

\* server.go 331-340: the log record and the status of the success path
Succeed(q, status) ==
    [q EXCEPT !.logs = Append(@, LogEntry(status, q.retryCount + 1, FALSE, q.apiKey)),
              !.status = status]

\* A validation branch that marks the key before it asks the heuristic.
ReceiveNormalMarkFirst(r, count) ==
    /\ ~req[r].isStream
    /\ \E up \in NormalOutcomes(req[r].provider) :
           LET q == req[r]
               cfg == settings
               validationResult == ValidateResponse(up.body, q.provider, q.isStream)
               failing == /\ up.readOk
                          /\ cfg.EnableAdvancedRetry
                          /\ ~validationResult.IsValid
                          /\ validationResult.ShouldRetry
               heuristic == CheckPunctuationHeuristic(count, up.body,
                                q.provider, cfg.EnablePunctuationHeuristic)
               next == ValidationRetry(cfg, q.bodyBytes, up.body, q.accumulatedText,
                                       q.provider)
               got == [q EXCEPT !.received = Append(@, up.body),
                                !.respStatus = up.status, !.respBody = up.body,
                                !.respRead = up.readOk,
                                !.validationResult =
                                    IF up.readOk /\ cfg.EnableAdvancedRetry
                                    THEN validationResult ELSE ValidResult]
           IN /\ ~IsHTTPFailure(up.status)
              /\ punctuationEndCount' = IF failing THEN heuristic.count
                                        ELSE punctuationEndCount
              /\ IF failing /\ ~heuristic.ret
                 THEN Set(r, Retry(got, 500, ErrorText(FALSE, validationResult.ErrorMessage),
                                   next.body, next.acc))
                 ELSE Set(r, [Succeed(got, up.status) EXCEPT
                                  !.pc = "respond", !.cfg = cfg,
                                  !.unhealthy = IF failing THEN Append(@, q.apiKey) ELSE @])
    /\ UNCHANGED <<settings, keyCursor, harness>>

\* server.go 257-340 for a non-streaming attempt; count is the value of
\* punctuationEndCount that CheckPunctuationHeuristic reads.
ReceiveNormalWith(r, count) ==
    /\ ~req[r].isStream
    /\ \E up \in NormalOutcomes(req[r].provider) :
           LET q == req[r]
               cfg == settings
               validationResult == ValidateResponse(up.body, q.provider, q.isStream)
               failing == /\ up.readOk
                          /\ cfg.EnableAdvancedRetry
                          /\ ~validationResult.IsValid
                          /\ validationResult.ShouldRetry
               heuristic == CheckPunctuationHeuristic(count, up.body,
                                q.provider, cfg.EnablePunctuationHeuristic)
               next == ValidationRetry(cfg, q.bodyBytes, up.body, q.accumulatedText,
                                       q.provider)
               got == [q EXCEPT !.received = Append(@, up.body),
                                !.respStatus = up.status, !.respBody = up.body,
                                !.respRead = up.readOk,
                                !.validationResult =
                                    IF up.readOk /\ cfg.EnableAdvancedRetry
                                    THEN validationResult ELSE ValidResult]
           IN /\ ~IsHTTPFailure(up.status)
              /\ punctuationEndCount' = IF failing THEN heuristic.count
                                        ELSE punctuationEndCount
              /\ IF failing /\ ~heuristic.ret
                 THEN Set(r, Retry(got, 500, ErrorText(FALSE, validationResult.ErrorMessage),
                                   next.body, next.acc))
                 ELSE Set(r, [Succeed(got, up.status) EXCEPT !.pc = "respond", !.cfg = cfg])
    /\ UNCHANGED <<settings, keyCursor, harness>>

\* One request at a time: the counter is read and written in one step.
ReceiveNormal(r) ==
    /\ req[r].pc = "dispatched"
    /\ ReceiveNormalWith(r, punctuationEndCount)

\* response_handlers.go 91-111
handleNormalResponse(r) ==
    /\ req[r].pc = "respond"
    /\ LET q == req[r]
           cfg == settings
       IN IF q.respRead
          THEN Set(r, [Finish(q, "success") EXCEPT
                   !.cfg = NoSettings,
                   !.written = Append(@, BodyWrite(handleNormalResponseBody(cfg, q.respBody,
                                                                             q.provider)))])
          ELSE \* the body whose read failed at line 258 is read again
               \E again \in BOOLEAN :
                   Set(r, [Finish(q, "success") EXCEPT
                        !.cfg = NoSettings,
                        !.written = IF again THEN @ ELSE Append(@, BodyWrite(NilBody))])
    /\ UNCHANGED <<settings, punctuationEndCount, keyCursor, harness>>

\* A streaming branch that rewrites the body for the next attempt as the
\* non-streaming branch does.
HandleStreamContinued(r) ==
    /\ req[r].pc = "dispatched"
    /\ req[r].isStream
    /\ \E up \in StreamOutcomes(req[r].provider) :
           LET q == req[r]
               cfg == settings
               h == handleStreamingResponse(q.relay, q.flusher, up.body, up.readErr,
                                            up.writeOk, cfg, q.provider)
               next == ValidationRetry(cfg, q.bodyBytes, h.body, q.accumulatedText,
                                       q.provider)
               got == [Succeed(q, up.status) EXCEPT
                          !.received = Append(@, h.body),
                          !.respStatus = up.status, !.respBody = h.body,
                          !.relayed = h.writes,
                          !.validationResult = h.result,
                          !.written = @ \o h.writes]
           IN /\ ~IsHTTPFailure(up.status)
              /\ IF cfg.EnableAdvancedRetry /\ ~h.result.IsValid /\ h.result.ShouldRetry
                 THEN Set(r, Retry(got, 500, ErrorText(FALSE, h.result.ErrorMessage),
                                   next.body, next.acc))
                 ELSE Set(r, [Finish(got, "success") EXCEPT
                          !.written = IF up.writeOk THEN Append(@, BodyWrite(h.body)) ELSE @])
    /\ UNCHANGED <<settings, punctuationEndCount, keyCursor, harness>>

\* server.go 331-368 for a streaming attempt
HandleStream(r) ==
    /\ req[r].pc = "dispatched"
    /\ req[r].isStream
    /\ \E up \in StreamOutcomes(req[r].provider) :
           LET q == req[r]
               cfg == settings
               h == handleStreamingResponse(q.relay, q.flusher, up.body, up.readErr,
                                            up.writeOk, cfg, q.provider)
               got == [Succeed(q, up.status) EXCEPT
                          !.received = Append(@, h.body),
                          !.respStatus = up.status, !.respBody = h.body,
                          !.relayed = h.writes,
                          !.validationResult = h.result,
                          !.written = @ \o h.writes]
           IN /\ ~IsHTTPFailure(up.status)
              /\ IF cfg.EnableAdvancedRetry /\ ~h.result.IsValid /\ h.result.ShouldRetry
                 THEN Set(r, Retry(got, 500, ErrorText(FALSE, h.result.ErrorMessage),
                                   q.bodyBytes, <<>>))
                 ELSE Set(r, [Finish(got, "success") EXCEPT
                          !.written = IF up.writeOk THEN Append(@, BodyWrite(h.body)) ELSE @])
    /\ UNCHANGED <<settings, punctuationEndCount, keyCursor, harness>>

\* The settings are reloaded while requests are in flight.
Reload ==
    /\ \E r \in Reqs : req[r].pc \notin {"idle", "done"}
    /\ \E p \in SettingsProfiles \ {settings} : settings' = p
    /\ UNCHANGED <<req, punctuationEndCount, keyCursor, harness>>

Next ==
    \/ \E r \in Reqs : HandleProxy(r)
    \/ \E r \in Reqs : Exhausted(r)
    \/ \E r \in Reqs : NoKey(r)
    \/ \E r \in Reqs : BuildFail(r)
    \/ \E r \in Reqs : Dispatch(r)
    \/ \E r \in Reqs : ClientAbort(r)
    \/ \E r \in Reqs : TransportError(r)
    \/ \E r \in Reqs : HTTPError(r)
    \/ \E r \in Reqs : ReceiveNormal(r)
    \/ \E r \in Reqs : handleNormalResponse(r)
    \/ \E r \in Reqs : HandleStream(r)
    \/ Reload

Spec == Init /\ [][Next]_vars

(***************************************************************************)
(* Properties of the engine, checked under Spec.                           *)
(***************************************************************************)
Active == {r \in Reqs : req[r].pc # "idle"}

Terminated(r) == req[r].pc = "done"

ValidationMessages ==
    {"AI service returned empty content (completion_tokens: 0)",
     "Content was blocked by safety filters",
     "Response ended with abnormal reason",
     "Response appears incomplete (missing completion token)"}

IsValidationRecord(e) == ~e.ErrorMessage.json /\ e.ErrorMessage.text \in ValidationMessages

\* The step of request r is a non-streaming validation failure that starts the next attempt.
ValidationRetryStep(r) ==
    /\ req[r].pc = "dispatched" /\ req'[r].pc = "attempt"
    /\ ~req[r].isStream
    /\ Len(req'[r].received) = Len(req[r].received) + 1

LastOf(seq) == seq[Len(seq)]

\* C1: a request of a group with MaxRetries = k causes at most k+1 upstream
\* dispatches, and every failure of whatever kind (transport, HTTP, validation of a
\* buffered or of a streamed body) has used up one attempt: the records are as
\* many as the attempt counter, and never more than the dispatches.
C1_DispatchBound ==
    \A r \in Active :
        /\ Len(req[r].dispatched) <= req[r].MaxRetries + 1
        /\ Len(req[r].retryErrors) = req[r].retryCount
        /\ Len(req[r].retryErrors) <= Len(req[r].dispatched)

C1_Witness ==
    \E r \in Active :
        /\ Terminated(r) /\ req[r].outcome = "exhausted"
        /\ req[r].MaxRetries >= 1
        /\ Len(req[r].dispatched) = req[r].MaxRetries + 1
        /\ IsValidationRecord(req[r].retryErrors[1])
        /\ ~IsValidationRecord(req[r].retryErrors[2])

\* C2: on every terminating path exactly one response is produced for the client.
C2_ExactlyOneResponse ==
    \A r \in Active : Terminated(r) => Len(req[r].written) = 1

\* C3: on every terminating path exactly one log record has been emitted over
\* the whole retry chain.
C3_ExactlyOneLog ==
    \A r \in Active : Terminated(r) => Len(req[r].logs) = 1

\* The body with the completion token taken off the end of its last text part.
WithoutTrailingToken(doc) ==
    [doc EXCEPT !.parts[Len(doc.parts)] = TrimSuffix(@, CompletionToken)]

AllValidationRecords(q) ==
    \A i \in 1..Len(q.retryErrors) : IsValidationRecord(q.retryErrors[i])

\* The case of C4: a buffered request whose earlier attempts all failed
\* validation and whose current attempt returned 200 with a valid body that
\* ends in the completion token, about to be answered with completion check on.
C4_Case(r) ==
    /\ req[r].pc = "respond" /\ ~req[r].isStream
    /\ settings.EnableCompletionCheck
    /\ req[r].respRead /\ req[r].respStatus = 200
    /\ AllValidationRecords(req[r])
    /\ ValidateResponse(req[r].respBody, req[r].provider, FALSE).IsValid
    /\ req[r].respBody.parts # <<>>
    /\ HasSuffix(LastOf(req[r].respBody.parts), CompletionToken)

\* C4: when attempts 1..j-1 of a buffered request failed validation and attempt
\* j returns a valid body ending in the completion token, the client receives
\* exactly that body without the token, and the one log record has retries = j
\* and success = true.
C4_ValidAfterRetries ==
    [][\A r \in Reqs :
          (C4_Case(r) /\ req'[r].pc = "done") =>
              /\ req'[r].written =
                     <<BodyWrite(Marshal(WithoutTrailingToken(req[r].respBody)))>>
              /\ req'[r].status = 200
              /\ Len(req'[r].logs) = 1
              /\ req'[r].logs[1].Retries = Len(req[r].retryErrors) + 1
              /\ req'[r].logs[1].Retries = Len(req[r].dispatched)
              /\ req'[r].logs[1].IsSuccess]_vars

C4_Witness ==
    \E r \in Active :
        /\ Terminated(r) /\ req[r].outcome = "success" /\ ~req[r].isStream
        /\ Len(req[r].retryErrors) >= 1 /\ AllValidationRecords(req[r])
        /\ req[r].respBody.parts # <<>>
        /\ HasSuffix(LastOf(req[r].respBody.parts), CompletionToken)
        /\ Len(req[r].written) = 1
        /\ req[r].written[1].doc.parts # <<>>
        /\ ~HasSuffix(LastOf(req[r].written[1].doc.parts), CompletionToken)
        /\ req[r].logs[1].Retries = 2

\* C5: after a validation failure of a buffered attempt, the body of the next
\* attempt is built from the request body of the failed attempt: that body
\* itself when context retry is off, the accumulated text is blank or
\* BuildRetryRequest fails, and otherwise that body with the continuation turns.
C5_RetryBodyFromRequest ==
    [][\A r \in Reqs :
          ValidationRetryStep(r) =>
              LET acc == req'[r].accumulatedText
                  built == BuildRetryRequest(req[r].bodyBytes, acc, req[r].provider)
              IN req'[r].bodyBytes =
                     IF settings.EnableContextRetry /\ TrimSpace(acc) # <<>> /\ ~built.err
                     THEN built.body
                     ELSE req[r].bodyBytes]_vars

\* The directive is in the body: SystemPromptText was added to it.
HasDirective(doc) ==
    \/ doc.sysDir > 0 \/ doc.instrDir > 0
    \/ \E i \in 1..Len(doc.msgs) : doc.msgs[i].dir > 0

\* The generated text of a delivered body ends with the completion token.
EndsWithToken(doc) ==
    IF doc.json
    THEN HasSuffix(TrimSpace(Concat(doc.parts)), CompletionToken)
    ELSE \E i \in 1..Len(doc.lines) :
             /\ doc.lines[i] = "payloadTok"
             /\ \A j \in (i + 1)..Len(doc.lines) : doc.lines[j] \notin {"payload", "payloadTok"}

\* C6: when the directive was injected into the request, no body delivered to
\* the client carries the completion token at the end of its generated text.
C6_TokenNeverDelivered ==
    \A r \in Active :
        HasDirective(req[r].finalBody) =>
            \A i \in 1..Len(req[r].written) :
                req[r].written[i].kind = "body" => ~EndsWithToken(req[r].written[i].doc)

FirstRunes(text, n) == IF Len(text) > n THEN SubSeq(text, 1, n) ELSE text

\* C7: with context retry on and MaxAccumulatedChars = C > 0, the accumulated
\* text carried into the next attempt after a validation failure has at most C
\* code points and is the first C code points of the previous accumulated text
\* followed by the newly extracted text.
C7_AccumulatedCap ==
    [][\A r \in Reqs :
          (/\ ValidationRetryStep(r)
           /\ settings.EnableContextRetry
           /\ settings.MaxAccumulatedChars > 0) =>
              /\ Len(req'[r].accumulatedText) <= settings.MaxAccumulatedChars
              /\ req'[r].accumulatedText =
                     FirstRunes(req[r].accumulatedText
                                    \o extractResponseText(LastOf(req'[r].received),
                                                           req[r].provider),
                                settings.MaxAccumulatedChars)]_vars

\* Truncation has happened: one code point from the first failed body, two more
\* from the second, two kept.
C7_Witness ==
    \E r \in Active :
        /\ Len(req[r].received) = 2 /\ req[r].retryCount = 2
        /\ Len(extractResponseText(req[r].received[1], req[r].provider)) = 1
        /\ Len(extractResponseText(req[r].received[2], req[r].provider)) = 2
        /\ Len(req[r].accumulatedText) = 2
        /\ req[r].accumulatedText[1] =
               extractResponseText(req[r].received[1], req[r].provider)[1]

(***************************************************************************)
(* The pure functions on their own: PureSpec draws an input and applies    *)
(* cleanTokenFromText (twice), RemoveCompletionToken or BuildRetryRequest. *)
(***************************************************************************)
Fragments == {<<"a">>, <<" ">>, <<"U3002">>, CompletionToken}

RECURSIVE TextsOf(_)
TextsOf(n) ==
    IF n = 0 THEN {<<>>}
    ELSE TextsOf(n - 1) \cup {t \o f : t \in TextsOf(n - 1), f \in Fragments}

Texts == TextsOf(MaxFrags)

RECURSIVE TurnListsOf(_)
TurnListsOf(n) ==
    IF n = 0 THEN {<<>>}
    ELSE TurnListsOf(n - 1)
             \cup {Append(l, Turn(role, "string", <<"q">>, 0)) :
                       l \in TurnListsOf(n - 1), role \in {"user", "assistant", "system"}}

\* A response of the given shape whose generated text is text followed by the token.
Generated(shape, text) ==
    [BlankDoc EXCEPT !.shape = shape, !.parts = <<text \o CompletionToken>>, !.finish = "stop"]

ShapesOf(provider) ==
    IF provider = "generic" THEN {"openai", "gemini", "anthropic"} ELSE {provider}

HarnessInputs ==
    {[IdleHarness EXCEPT !.pc = "clean", !.text = t] : t \in Texts}
        \cup {[IdleHarness EXCEPT !.pc = "strip", !.provider = p, !.text = t,
                                  !.doc = Generated(sh, t)] :
                  p \in Providers, t \in Texts, sh \in {"openai", "gemini", "anthropic"}}
        \cup {[IdleHarness EXCEPT !.pc = "build", !.provider = p, !.acc = a,
                                  !.doc = [BlankDoc EXCEPT !.json = j,
                                                           !.hasMsgs = m, !.msgs = IF m THEN l ELSE <<>>,
                                                           !.hasContents = c,
                                                           !.contents = IF c THEN l ELSE <<>>]] :
                  p \in Providers, a \in {<<"a">>, <<" ">>}, j \in BOOLEAN,
                  m \in BOOLEAN, c \in BOOLEAN, l \in TurnListsOf(MaxTurns)}

\* The lists of text parts of a response: none, one part that is empty, has
\* text, or ends in the token, and two parts of which the first is blank.
PartLists ==
    {<<>>, <<<<>>>>, <<<<"a">>>>, <<<<"a">> \o CompletionToken>>,
     <<<<" ">>, <<"a">> \o CompletionToken>>}

\* Bodies for ValidateResponse: parseable or not, of each shape and of none,
\* with and without the zero token count, the block marker, a finish reason and
\* the token.  The content of a choice is one string; candidates and content
\* blocks carry lists of parts.
ValidationBodies ==
    {d \in {[BlankDoc EXCEPT !.json = j, !.shape = sh, !.parts = ps, !.zeroTok = z,
                             !.blocked = b, !.finish = f] :
                j \in BOOLEAN, sh \in {"openai", "gemini", "anthropic", "none"},
                ps \in PartLists,
                z \in BOOLEAN, b \in BOOLEAN, f \in {"none", "stop", "SAFETY"}} :
        /\ d.shape = "openai" => Len(d.parts) <= 1
        /\ d.shape = "none" => d.parts = <<>>}

ValidationInputs ==
    {[IdleHarness EXCEPT !.pc = "validate", !.provider = p, !.doc = d] :
        p \in Providers, d \in ValidationBodies}

\* Buffered stream bodies for ValidateStreamResponse: up to MaxFrags lines, each
\* a data line with payload, the line "data: [DONE]", a data line without
\* content, or a line that is not a data line.
RECURSIVE LineListsOf(_)
LineListsOf(n) ==
    IF n = 0 THEN {<<>>}
    ELSE LineListsOf(n - 1)
             \cup {Append(l, t) : l \in LineListsOf(n - 1),
                                  t \in {"payload", "DONE", "empty", "comment"}}

StreamInputs ==
    {[IdleHarness EXCEPT !.pc = "validate stream", !.provider = p, !.doc = Stream(l)] :
        p \in Providers, l \in LineListsOf(MaxFrags)}

PureInit ==
    /\ harness \in {h \in HarnessInputs :
                       h.pc = "strip" => h.doc.shape \in ShapesOf(h.provider)}
                   \cup ValidationInputs \cup StreamInputs
    /\ req = [r \in Reqs |-> IdleRequest]
    /\ settings = Settings(FALSE, FALSE, FALSE, FALSE, 0)
    /\ punctuationEndCount = 0
    /\ keyCursor = 0

Clean ==
    /\ harness.pc = "clean"
    /\ harness' = [harness EXCEPT !.pc = "cleaned", !.out1 = cleanTokenFromText(harness.text)]
    /\ UNCHANGED <<req, settings, punctuationEndCount, keyCursor>>

CleanAgain ==
    /\ harness.pc = "cleaned"
    /\ harness' = [harness EXCEPT !.pc = "cleaned twice",
                                  !.out2 = cleanTokenFromText(harness.out1)]
    /\ UNCHANGED <<req, settings, punctuationEndCount, keyCursor>>

Strip ==
    /\ harness.pc = "strip"
    /\ harness' = [harness EXCEPT !.pc = "stripped",
                       !.outDoc = RemoveCompletionToken(harness.doc, harness.provider)]
    /\ UNCHANGED <<req, settings, punctuationEndCount, keyCursor>>

Build ==
    /\ harness.pc = "build"
    /\ LET built == BuildRetryRequest(harness.doc, harness.acc, harness.provider)
       IN harness' = [harness EXCEPT !.pc = "built", !.outDoc = built.body,
                                     !.err = built.err]
    /\ UNCHANGED <<req, settings, punctuationEndCount, keyCursor>>

Validate ==
    /\ harness.pc = "validate"
    /\ harness' = [harness EXCEPT !.pc = "validated",
                       !.result = ValidateResponse(harness.doc, harness.provider, FALSE)]
    /\ UNCHANGED <<req, settings, punctuationEndCount, keyCursor>>

ValidateStream ==
    /\ harness.pc = "validate stream"
    /\ harness' = [harness EXCEPT !.pc = "stream validated",
                       !.result = ValidateStreamResponse(harness.doc, harness.provider)]
    /\ UNCHANGED <<req, settings, punctuationEndCount, keyCursor>>

PureNext == Clean \/ CleanAgain \/ Strip \/ Build \/ Validate \/ ValidateStream

PureSpec == PureInit /\ [][PureNext]_vars

\* The trimmed text ends with the token twice, with or without whitespace between.
EndsWithTwoTokens(text) ==
    /\ HasSuffix(TrimSpace(text), CompletionToken)
    /\ HasSuffix(TrimSpace(TrimSuffix(TrimSpace(text), CompletionToken)), CompletionToken)

\* C8, as claimed: cleaning a cleaned text changes nothing, for every text.
C8_Idempotent ==
    harness.pc = "cleaned twice" => harness.out2 = harness.out1

\* C8, amended: cleaning a cleaned text changes nothing unless the text ends
\* with the token twice or more (possibly separated by whitespace); there the
\* second cleaning takes one more token off.
C8_IdempotentUnlessRepeated ==
    harness.pc = "cleaned twice" =>
        IF EndsWithTwoTokens(harness.text)
        THEN /\ harness.out2 # harness.out1
             /\ harness.out2 = TrimSpace(TrimSuffix(harness.out1, CompletionToken))
        ELSE harness.out2 = harness.out1

C8_Witness ==
    /\ harness.pc = "cleaned twice"
    /\ harness.text = <<" ", "a">> \o CompletionToken
    /\ harness.out1 = <<"a">>
    /\ harness.out2 = <<"a">>

\* C9, as claimed: stripping a response whose generated text is t followed by
\* the token gives a response whose generated text is exactly t.
C9_RoundTrip ==
    harness.pc = "stripped" => harness.outDoc.parts = <<harness.text>>

\* C9, amended: for every variant, stripping a response whose generated text,
\* carried in one text part, is t followed by the token gives a response whose
\* generated text is t without its leading and trailing whitespace (so exactly
\* t when t has none), also when t itself ends with the token.
C9_RoundTripTrimmed ==
    harness.pc = "stripped" =>
        /\ harness.outDoc.parts = <<TrimSpace(harness.text)>>
        /\ harness.outDoc.shape = harness.doc.shape
        /\ (TrimSpace(harness.text) = harness.text =>
                harness.outDoc.parts = <<harness.text>>)

C9_Witness ==
    /\ harness.pc = "stripped"
    /\ harness.provider = "generic" /\ harness.doc.shape = "gemini"
    /\ harness.text = <<" ", "a">> \o CompletionToken
    /\ harness.outDoc.parts = <<<<"a">> \o CompletionToken>>

\* The turn list BuildRetryRequest works on, by variant; none when the body has
\* no such array.
TurnKey(doc, provider) ==
    CASE provider = "gemini" -> "contents"
      [] provider \in {"openai", "anthropic"} -> "messages"
      [] doc.hasMsgs -> "messages"
      [] OTHER -> "contents"

TurnList(doc, provider) ==
    IF TurnKey(doc, provider) = "messages"
    THEN IF doc.hasMsgs THEN doc.msgs ELSE <<>>
    ELSE IF doc.hasContents THEN doc.contents ELSE <<>>

HasTurnList(doc, provider) ==
    IF TurnKey(doc, provider) = "messages" THEN doc.hasMsgs ELSE doc.hasContents

\* new is old with an assistant/model turn carrying acc and a user turn
\* "continue" put right after the last user turn, or at the end when old has
\* no user turn.
ContinuationInserted(old, new, acc) ==
    /\ Len(new) = Len(old) + 2
    /\ \E k \in 0..Len(old) :
           /\ \A i \in 1..k : new[i] = old[i]
           /\ \A i \in (k + 1)..Len(old) : new[i + 2] = old[i] /\ old[i].role # "user"
           /\ (k > 0 /\ old[k].role = "user") \/ k = Len(old)
           /\ new[k + 1].role \in {"assistant", "model"} /\ new[k + 1].text = acc
           /\ new[k + 2].role = "user" /\ new[k + 2].text = ContinueText

C10_Case == harness.pc = "built" /\ harness.doc.json /\ TrimSpace(harness.acc) # <<>>

HeuristicBodies(provider) ==
    ResponseBodies(provider)
        \cup {Garbage, Response(provider, Split(provider, <<".">>, <<" ">>), FALSE, "stop")}

HeuristicInit ==
    /\ harness \in {[IdleHarness EXCEPT !.pc = "checks", !.provider = p] : p \in Providers}
    /\ req = [r \in Reqs |-> IdleRequest]
    /\ settings = Settings(TRUE, TRUE, TRUE, TRUE, 0)
    /\ punctuationEndCount = 0
    /\ keyCursor = 0

Check ==
    /\ harness.pc = "checks"
    /\ Len(harness.calls) < MaxCalls
    /\ \E body \in HeuristicBodies(harness.provider) :
           LET h == CheckPunctuationHeuristic(punctuationEndCount, body, harness.provider,
                                              settings.EnablePunctuationHeuristic)
           IN /\ harness' = [harness EXCEPT
                                !.calls = Append(@, [body |-> body, ret |-> h.ret,
                                                     after |-> h.count])]
              /\ punctuationEndCount' = h.count
    /\ UNCHANGED <<req, settings, keyCursor>>

HeuristicNext == Check

HeuristicSpec == HeuristicInit /\ [][HeuristicNext]_vars

\* The text of call i ends in sentence punctuation (an empty text does not).
PunctuationCall(i) ==
    endsWithSentencePunctuation(extractResponseText(harness.calls[i].body, harness.provider))

\* The streak is zero after call i: there was no call yet, or call i returned
\* true, or its text was empty or did not end in punctuation.
StreakZeroAfter(i) == i = 0 \/ harness.calls[i].ret \/ ~PunctuationCall(i)

\* C11: with the heuristic enabled and the calls made one after another on one
\* validator, a call returns true exactly when it is the third call in a row
\* whose text ends in sentence punctuation since the streak was last zero, and
\* that call leaves the streak at 0; a call whose text is empty or does not end
\* in punctuation returns false and leaves the streak at 0.
C11_ThirdInARow ==
    \A i \in 1..Len(harness.calls) :
        LET call == harness.calls[i]
        IN /\ call.ret <=> /\ i >= 3
                           /\ \A j \in (i - 2)..i : PunctuationCall(j)
                           /\ StreakZeroAfter(i - 3)
           /\ call.ret => call.after = 0
           /\ ~PunctuationCall(i) => ~call.ret /\ call.after = 0
           /\ i = Len(harness.calls) => punctuationEndCount = call.after

\* Three in a row give true and a zero streak; the fourth starts a new streak.
C11_Witness ==
    /\ Len(harness.calls) = 4
    /\ \A i \in 1..4 : PunctuationCall(i)
    /\ harness.calls[3].ret /\ harness.calls[3].after = 0
    /\ ~harness.calls[4].ret /\ harness.calls[4].after = 1

(***************************************************************************)
(* Two requests served at the same time by one ProxyServer: ConcSpec.      *)
(* Each is handled by its own goroutine; the validator and its counter are *)
(* the server's.  CheckPunctuationHeuristic reads and writes the counter   *)
(* without synchronization, so the read and the write of one call can have *)
(* the calls of the other request in between: LoadStreak is the read,      *)
(* ReceiveLoaded the rest of the attempt with the write.  Both requests    *)
(* are buffered and every upstream call of theirs returns a response.      *)
(***************************************************************************)
ConcInit ==
    /\ \E p \in {"openai", "gemini"} :
           req = [r \in Reqs |->
                     [IdleRequest EXCEPT !.pc = "start", !.provider = p,
                                         !.MaxRetries = MaxRetriesBound,
                                         !.inbound = ClientRequest(p)]]
    /\ settings = Settings(TRUE, TRUE, TRUE, TRUE, 2)
    /\ punctuationEndCount = 0
    /\ keyCursor = 0
    /\ harness = IdleHarness

LoadStreak(r) ==
    /\ req[r].pc = "dispatched"
    /\ ~req[r].isStream
    /\ Set(r, [req[r] EXCEPT !.pc = "checking", !.loaded = punctuationEndCount])
    /\ UNCHANGED <<settings, punctuationEndCount, keyCursor, harness>>

ReceiveLoaded(r) ==
    /\ req[r].pc = "checking"
    /\ ReceiveNormalWith(r, req[r].loaded)

ConcNext ==
    \/ \E r \in Reqs : HandleProxy(r)
    \/ \E r \in Reqs : Exhausted(r)
    \/ \E r \in Reqs : Dispatch(r)
    \/ \E r \in Reqs : LoadStreak(r)
    \/ \E r \in Reqs : ReceiveLoaded(r)
    \/ \E r \in Reqs : handleNormalResponse(r)

ConcSpec == ConcInit /\ [][ConcNext]_vars

\* The body failed validation and its text ends in sentence punctuation.
PunctuationFailure(body, provider) ==
    /\ ~ValidateResponse(body, provider, FALSE).IsValid
    /\ endsWithSentencePunctuation(extractResponseText(body, provider))

\* How many responses of request r were given to the heuristic and ended in
\* sentence punctuation.
PunctuationFailures(r) ==
    Cardinality({i \in 1..Len(req[r].received) :
                    PunctuationFailure(req[r].received[i], req[r].provider)})

\* The attempt of request r was accepted by the override: its body failed
\* validation and is delivered all the same.
Overridden(r) ==
    /\ req[r].pc = "respond" \/ (req[r].pc = "done" /\ req[r].outcome = "success")
    /\ req[r].respRead
    /\ ~ValidateResponse(req[r].respBody, req[r].provider, FALSE).IsValid

\* The step is the check of a response of request r that failed validation.
HeuristicStep(r) ==
    /\ req[r].pc = "checking" /\ req'[r].pc \in {"attempt", "respond"}
    /\ req'[r].respRead
    /\ ~ValidateResponse(req'[r].respBody, req[r].provider, FALSE).IsValid

\* C12: the punctuation streak is one counter for all requests in flight.  A
\* check made for any request reads the counter as the last check of any
\* request left it, advances it when the response ends in punctuation and
\* resets it otherwise; so a request is overridden only when three
\* punctuation-ended responses have been checked for the requests together,
\* whichever requests they belong to.
C12_SharedStreak ==
    /\ [](\A a \in Reqs :
             Overridden(a) => PunctuationFailures(1) + PunctuationFailures(2) >= 3)
    /\ [][\A b \in Reqs :
             /\ (req[b].pc = "dispatched" /\ req'[b].pc = "checking") =>
                    req'[b].loaded = punctuationEndCount
             /\ HeuristicStep(b) =>
                    /\ req'[b].pc = "respond" <=>
                           /\ PunctuationFailure(req'[b].respBody, req[b].provider)
                           /\ req[b].loaded + 1 >= 3
                    /\ punctuationEndCount' =
                           IF PunctuationFailure(req'[b].respBody, req[b].provider)
                              /\ req[b].loaded + 1 < 3
                           THEN req[b].loaded + 1 ELSE 0]_vars

\* Request 1 is overridden with two punctuation-ended responses of its own:
\* the third was a response of request 2.
C12_Witness ==
    /\ Overridden(1)
    /\ PunctuationFailures(1) = 2
    /\ PunctuationFailures(2) = 1

(***************************************************************************)
(* Properties of the streaming relay, checked under Spec.                  *)
(***************************************************************************)
\* The bytes of w are the first bytes of b.
PrefixOf(w, b) ==
    \/ w = b
    \/ w = NilBody
    \/ \E n \in 0..Len(b.lines) : w = Chunks(b, n)

\* Request r has been through handleStreamingResponse, which wrote to the client.
Relayed(r) == req[r].isStream /\ req[r].relayed # <<>>

\* C13, as claimed: what handleStreamingResponse has written to the client is a
\* prefix of the buffered copy it validates and returns.
C13_RelayedIsPrefix ==
    \A r \in Active :
        Relayed(r) => PrefixOf(req[r].relayed[1].doc, req[r].respBody)

\* C13, amended: the relay through the duplicating reader and the fallback for
\* a writer that cannot flush write a prefix of the buffered copy; the handler
\* that buffers the whole stream first writes the buffered copy once, as it is,
\* or with the completion token taken out of it when completion check is on.
C13_RelayedIsPrefixOrStripped ==
    \A r \in Active :
        Relayed(r) =>
            LET w == req[r].relayed[1].doc
            IN /\ Len(req[r].relayed) = 1
               /\ IF req[r].relay = "buffered" /\ req[r].flusher
                  THEN \/ w = req[r].respBody
                       \/ w = RemoveCompletionToken(req[r].respBody, req[r].provider)
                  ELSE PrefixOf(w, req[r].respBody)

\* The write of the second chunk failed: the first chunk is with the client,
\* both are in the buffer.
C13_Witness ==
    \E r \in Active :
        /\ Relayed(r) /\ req[r].relay = "tee"
        /\ Len(req[r].respBody.lines) = 2
        /\ req[r].relayed[1].doc = Chunks(req[r].respBody, 1)

(***************************************************************************)
(* Properties of ValidateResponse, checked under PureSpec.                 *)
(***************************************************************************)
\* C14: for a non-streaming body ValidateResponse applies the checks in the
\* order empty-content, blocked-content, abnormal-finish, incomplete and returns
\* the kind of the first that matches; it returns valid only when none
\* matches, and every invalid result is to be retried.
C14_FirstMatchWins ==
    harness.pc = "validated" =>
        LET body == harness.doc
            result == harness.result
            empty == isEmptyResponse(body)
            blocked == isBlockedResponse(body)
            abnormal == getAbnormalFinishReason(body) # ""
            incomplete == isIncompleteResponse(body)
        IN /\ empty => result.ErrorType = "EMPTY_RESPONSE"
           /\ (~empty /\ blocked) => result.ErrorType = "BLOCKED_CONTENT"
           /\ (~empty /\ ~blocked /\ abnormal) => result.ErrorType = "ABNORMAL_FINISH"
           /\ (~empty /\ ~blocked /\ ~abnormal /\ incomplete) =>
                  result.ErrorType = "INCOMPLETE_RESPONSE"
           /\ result.IsValid <=> ~(empty \/ blocked \/ abnormal \/ incomplete)
           /\ result.IsValid <=> result.ErrorType = ""
           /\ ~result.IsValid => result.ShouldRetry

\* A body with the zero token count and finishReason SAFETY is empty-content.
C14_Witness ==
    /\ harness.pc = "validated"
    /\ harness.doc.zeroTok /\ harness.doc.finish = "SAFETY" /\ ~harness.doc.blocked
    /\ harness.result.ErrorType = "EMPTY_RESPONSE"
    /\ harness.result.ShouldRetry

(***************************************************************************)
(* Properties of the failure paths of the engine, checked under Spec.      *)
(***************************************************************************)
\* The message is a JSON object (json.Unmarshal into a map also accepts null).
IsJSONObject(message) == message.json /\ message.text # "null"

Exhaustion(r) == Terminated(r) /\ req[r].outcome = "exhausted"

\* C15, as claimed: on exhaustion with records the answer has the status of the
\* last record and its error body as it is when that is a JSON object, and
\* wraps it otherwise; without records it is the generic error.
C15_LastRecordAsIs ==
    \A r \in Active :
        Exhaustion(r) =>
            LET w == LastOf(req[r].written)
                last == LastOf(req[r].retryErrors)
            IN IF req[r].retryErrors = <<>>
               THEN w = ErrorWrite(0, "MAX_RETRIES_EXCEEDED")
               ELSE /\ w.code = last.StatusCode
                    /\ IF IsJSONObject(last.ErrorMessage)
                       THEN w.kind = "json" /\ w.msg = last.ErrorMessage
                       ELSE w = UpstreamErrorWrite(last.StatusCode, last.ErrorMessage)

\* C15, amended: on exhaustion with records the answer has the status of the
\* last record, and its error body decoded and encoded again when
\* json.Unmarshal into a map accepts it (an object, or null): the same value
\* in the encoder's bytes; any other body is wrapped as an upstream error.
\* Without records the answer is the generic error.
C15_LastRecordReencoded ==
    \A r \in Active :
        Exhaustion(r) =>
            LET w == LastOf(req[r].written)
                last == LastOf(req[r].retryErrors)
            IN IF req[r].retryErrors = <<>>
               THEN w = ErrorWrite(0, "MAX_RETRIES_EXCEEDED")
               ELSE /\ w.code = last.StatusCode
                    /\ IF last.ErrorMessage.json
                       THEN /\ w.kind = "json"
                            /\ w.msg.text = last.ErrorMessage.text
                            /\ w.msg.fmt = "canon"
                       ELSE w = UpstreamErrorWrite(last.StatusCode, last.ErrorMessage)

\* Two records of different status and body: the answer is made from the second.
C15_Witness ==
    \E r \in Active :
        /\ Exhaustion(r) /\ Len(req[r].retryErrors) = 2
        /\ req[r].retryErrors[1].StatusCode = 503
        /\ req[r].retryErrors[2].StatusCode = 429
        /\ req[r].retryErrors[2].ErrorMessage.fmt = "raw"
        /\ LastOf(req[r].written).kind = "json"
        /\ LastOf(req[r].written).code = 429

\* The step of request r is the one taken when SelectKey fails.
NoKeyStep(r) ==
    /\ req[r].pc = "attempt" /\ ~RetriesExceeded(req[r].retryCount, req[r].MaxRetries)
    /\ req'[r].dispatched = req[r].dispatched
    /\ keyCursor' = keyCursor
    /\ req'[r] # req[r]

\* C16: when the selection of a key fails at attempt n, whatever n, the request
\* ends there with the error "no keys available": nothing is dispatched at
\* attempt n, no record is appended, no key is marked, the attempts that were
\* left are not made, and nothing happens for the request afterwards.
C16_NoKeyTerminal ==
    [][\A r \in Reqs :
          /\ NoKeyStep(r) =>
                 /\ Terminated(r)' /\ req'[r].outcome = "nokey"
                 /\ req'[r].written =
                        Append(req[r].written, ErrorWrite(0, "NO_KEYS_AVAILABLE"))
                 /\ req'[r].retryErrors = req[r].retryErrors
                 /\ req'[r].retryCount = req[r].retryCount
                 /\ req'[r].unhealthy = req[r].unhealthy
                 /\ Len(req'[r].dispatched) = req[r].retryCount
                 /\ Len(req'[r].dispatched) <= req[r].MaxRetries
          /\ (Terminated(r) /\ req[r].outcome = "nokey") => req'[r] = req[r]]_vars

\* The selection failed at the second attempt, with one record and one attempt left.
C16_Witness ==
    \E r \in Active :
        /\ Terminated(r) /\ req[r].outcome = "nokey"
        /\ req[r].retryCount = 1 /\ Len(req[r].retryErrors) = 1
        /\ req[r].MaxRetries = 1
        /\ Len(req[r].dispatched) = 1
        /\ LastOf(req[r].written) = ErrorWrite(0, "NO_KEYS_AVAILABLE")

\* C17: when the transport error of an attempt is one the client caused, the
\* engine stops: the dispatch of that attempt is the last, the key is not
\* marked unhealthy and no record is appended for it, and the one log record of
\* the request has status 499.
C17_AbortSingleLog ==
    \A r \in Active :
        (Terminated(r) /\ req[r].outcome = "abort") =>
            /\ Len(req[r].dispatched) = req[r].retryCount + 1
            /\ Len(req[r].retryErrors) = req[r].retryCount
            /\ Len(req[r].unhealthy) = req[r].retryCount
            /\ Len(req[r].logs) = 1
            /\ req[r].logs[1].StatusCode = 499

\* The step of request r is a retry after a transport error or a status of 400
\* or more: the attempt goes on to the next without a body having been read
\* for validation.
FailureRetryStep(r) ==
    /\ req[r].pc = "dispatched" /\ req'[r].pc = "attempt"
    /\ req'[r].received = req[r].received

\* C18: on a transport error that the client did not cause, or a status of 400
\* or more other than 404, the engine marks the key of the attempt unhealthy,
\* appends one record and starts the next attempt with the request body and the
\* accumulated text of this one.
C18_FailureRetryKeepsBody ==
    [][\A r \in Reqs :
          FailureRetryStep(r) =>
              /\ req'[r].unhealthy = Append(req[r].unhealthy, req[r].apiKey)
              /\ Len(req'[r].retryErrors) = Len(req[r].retryErrors) + 1
              /\ SubSeq(req'[r].retryErrors, 1, Len(req[r].retryErrors)) = req[r].retryErrors
              /\ LastOf(req'[r].retryErrors).KeyValue = req[r].apiKey
              /\ LastOf(req'[r].retryErrors).Attempt = req[r].retryCount + 1
              /\ LastOf(req'[r].retryErrors).StatusCode >= 400
              /\ LastOf(req'[r].retryErrors).StatusCode # 404
              /\ req'[r].retryCount = req[r].retryCount + 1
              /\ req'[r].bodyBytes = req[r].bodyBytes
              /\ req'[r].bodyBytes = LastOf(req[r].dispatched)
              /\ req'[r].accumulatedText = req[r].accumulatedText
              /\ req'[r].written = req[r].written
              /\ req'[r].logs = req[r].logs]_vars

\* An upstream error follows a validation failure that had rewritten the body
\* and accumulated text: both are carried on as they were.
C18_Witness ==
    \E r \in Active :
        /\ req[r].pc = "attempt" /\ req[r].retryCount = 2
        /\ Len(req[r].received) = 1 /\ Len(req[r].dispatched) = 2
        /\ IsValidationRecord(req[r].retryErrors[1])
        /\ req[r].retryErrors[2].StatusCode = 429
        /\ req[r].accumulatedText # <<>>
        /\ req[r].bodyBytes = req[r].dispatched[2]
        /\ req[r].dispatched[2] # req[r].dispatched[1]
        /\ Len(req[r].unhealthy) = 2

\* The step of request r is the retry of a streaming attempt that
\* handleStreamingResponse reported invalid and to be retried.
StreamRetryStep(r) ==
    /\ req[r].pc = "dispatched" /\ req'[r].pc = "attempt"
    /\ req[r].isStream
    /\ Len(req'[r].received) = Len(req[r].received) + 1

\* C19: when a streaming attempt is rejected and retried, nothing of its body
\* has been written to the client when the next attempt starts.
C19_NothingWrittenOnStreamRetry ==
    [][\A r \in Reqs :
          StreamRetryStep(r) =>
              /\ req'[r].relayed = <<>>
              /\ req'[r].written = req[r].written]_vars

\* The record was made for a failed write to the client.
IsWriteErrorRecord(e) == ~e.ErrorMessage.json /\ e.ErrorMessage.text = "write"

\* C20: a failed write to the client during streaming relay is never retried:
\* it leaves no record and no mark on the key, and no attempt follows it.
C20_WriteErrorNotRetried ==
    \A r \in Active :
        \A i \in 1..Len(req[r].retryErrors) : ~IsWriteErrorRecord(req[r].retryErrors[i])

\* The step of request r is a streaming attempt whose response has come.
StreamAttemptStep(r) ==
    /\ req[r].pc = "dispatched" /\ req[r].isStream
    /\ Len(req'[r].received) = Len(req[r].received) + 1

\* The result handleStreamingResponse gives when a read of the upstream body fails.
IsReadError(result) ==
    /\ ~result.IsValid /\ result.ErrorType = "STREAM_ERROR"
    /\ result.ErrorMessage \in {"read", "Fallback failed"}

\* C21: a streaming attempt that ends with a read error of the upstream body,
\* with retry budget left, marks the key unhealthy and starts the next attempt,
\* whatever the settings are; the request is not completed with the partial body.
C21_ReadErrorRetried ==
    [][\A r \in Reqs :
          (/\ StreamAttemptStep(r)
           /\ IsReadError(req'[r].validationResult)
           /\ req[r].retryCount < req[r].MaxRetries) =>
              /\ req'[r].pc = "attempt"
              /\ req'[r].retryCount = req[r].retryCount + 1
              /\ req'[r].unhealthy = Append(req[r].unhealthy, req[r].apiKey)]_vars

IsBodyWrite(w) == w.kind = "body"

\* The writes of a response body request r has made to the client, in order.
BodyWrites(r) == SelectSeq(req[r].written, IsBodyWrite)

\* C22: a streaming request to a writer that cannot flush, whose upstream body
\* was read whole, is reported valid without validation and has its body
\* written to the client at most once, counting the writes of the relay
\* function and of the engine together.
C22_FallbackWritesOnce ==
    \A r \in Active :
        (/\ Terminated(r) /\ req[r].outcome = "success"
         /\ req[r].isStream /\ ~req[r].flusher
         /\ ~IsReadError(req[r].validationResult)) =>
            /\ req[r].validationResult = ValidResult
            /\ Len(BodyWrites(r)) <= 1

(***************************************************************************)
(* Requests of a group that allows ChainRetries retries, served without    *)
(* streaming: chains of validation failures longer than Spec has.          *)
(***************************************************************************)
ChainInit ==
    /\ \E p \in Providers : \E b \in InboundBodies(p) :
           req = [r \in Reqs |->
                     IF r = 1
                     THEN [IdleRequest EXCEPT !.pc = "start", !.provider = p,
                                              !.MaxRetries = ChainRetries, !.inbound = b]
                     ELSE IdleRequest]
    /\ settings \in SettingsProfiles
    /\ punctuationEndCount = 0
    /\ keyCursor = 0
    /\ harness = IdleHarness

ChainNext ==
    \/ \E r \in Reqs : HandleProxy(r)
    \/ \E r \in Reqs : Exhausted(r)
    \/ \E r \in Reqs : Dispatch(r)
    \/ \E r \in Reqs : HTTPError(r)
    \/ \E r \in Reqs : ReceiveNormal(r)
    \/ \E r \in Reqs : handleNormalResponse(r)

ChainSpec == ChainInit /\ [][ChainNext]_vars

\* The step of request r is HandleProxy with an inbound body that
\* InjectCompletionPrompt cannot parse.
InjectionFailure(r) ==
    /\ req[r].pc = "start" /\ req'[r].pc # "start"
    /\ settings.EnableCompletionCheck
    /\ InjectCompletionPrompt(req[r].inbound, req[r].provider).err

\* The step of request r is a validation failure in which BuildRetryRequest is
\* called and cannot parse the body it is given.
RewriteFailure(r) ==
    /\ ValidationRetryStep(r)
    /\ settings.EnableContextRetry
    /\ TrimSpace(req'[r].accumulatedText) # <<>>
    /\ BuildRetryRequest(LastOf(req'[r].received), req'[r].accumulatedText,
                         req[r].provider).err

EngineNext ==
    \/ \E r \in Reqs : HandleProxy(r)
    \/ \E r \in Reqs : Exhausted(r)
    \/ \E r \in Reqs : NoKey(r)
    \/ \E r \in Reqs : BuildFail(r)
    \/ \E r \in Reqs : Dispatch(r)
    \/ \E r \in Reqs : ClientAbort(r)
    \/ \E r \in Reqs : TransportError(r)
    \/ \E r \in Reqs : HTTPError(r)
    \/ \E r \in Reqs : ReceiveNormal(r)
    \/ \E r \in Reqs : handleNormalResponse(r)
    \/ \E r \in Reqs : HandleStream(r)

FairSpec == Spec /\ WF_vars(EngineNext)

TerminalOutcomes == {"success", "exhausted", "nokey", "urlfail", "reqfail", "abort"}

\* C24: every request that enters the engine reaches a terminal state
\* (success, retries exhausted, no key, construction failure or client abort);
\* every return to the entry of the engine that is not the first raises the
\* attempt index by one, punctuation overrides included, and the index never
\* passes MaxRetries + 1.
C24_Terminates ==
    /\ \A r \in Reqs :
           (req[r].pc = "start") ~>
               (req[r].pc = "done" /\ req[r].outcome \in TerminalOutcomes)
    /\ [][\A r \in Reqs :
             /\ (req[r].pc # "start" /\ req'[r].pc = "attempt" /\ req'[r] # req[r]) =>
                    req'[r].retryCount = req[r].retryCount + 1
             /\ req'[r].retryCount >= req[r].retryCount
             /\ req[r].pc = "done" => req'[r] = req[r]]_vars
    /\ [](\A r \in Reqs : req[r].retryCount <= req[r].MaxRetries + 1)

\* A request that ended in success on a punctuation override after a retry,
\* the override having reset the streak.
C24_Witness ==
    \E r \in Active :
        /\ Terminated(r) /\ req[r].outcome = "success"
        /\ req[r].retryCount >= 1
        /\ Overridden(r)
        /\ PunctuationFailure(req[r].respBody, req[r].provider)
        /\ punctuationEndCount = 0

(***************************************************************************)
(* Properties of the validator, checked under PureSpec.                    *)
(***************************************************************************)
\* C25: a buffered stream body without the line "data: [DONE]" is classified
\* INCOMPLETE_STREAM, also when it has no data line with payload;
\* EMPTY_RESPONSE is given only to bodies that have the marker and no payload.
C25_TruncatedBeforeEmpty ==
    harness.pc = "stream validated" =>
        LET body == harness.doc
            result == harness.result
        IN /\ ~StreamIsDone(body) =>
                  (~result.IsValid /\ result.ErrorType = "INCOMPLETE_STREAM")
           /\ result.ErrorType = "EMPTY_RESPONSE" =>
                  (StreamIsDone(body) /\ ~hasNonEmptyStreamContent(body, harness.provider))

\* C26: ValidateResponse classifies a body as empty-content exactly when the
\* body has a zero token count or the text extracted from it, all parts
\* together, is empty or whitespace.
C26_EmptyIffBlankText ==
    harness.pc = "validated" =>
        (harness.result.ErrorType = "EMPTY_RESPONSE" <=>
            \/ harness.doc.zeroTok
            \/ TrimSpace(extractResponseText(harness.doc, harness.provider)) = <<>>)

Accepted(r) ==
    /\ ~req[r].isStream
    /\ req[r].pc = "respond" \/ (req[r].pc = "done" /\ req[r].outcome = "success")
    /\ ~req[r].validationResult.IsValid /\ req[r].validationResult.ShouldRetry

\* C28: when ValidateResponse reports invalid and to be retried and
\* CheckPunctuationHeuristic returns true, the attempt is accepted: the key is
\* not marked, no record is appended, the attempt index stays, no dispatch
\* follows, and the client gets the upstream status and that attempt's body.
C28_OverrideAccepts ==
    /\ [](\A a \in Reqs :
             Accepted(a) =>
                 /\ Len(req[a].dispatched) = req[a].retryCount + 1
                 /\ Len(req[a].retryErrors) = req[a].retryCount
                 /\ Len(req[a].unhealthy) = req[a].retryCount
                 /\ req[a].respBody = LastOf(req[a].received)
                 /\ req[a].status = req[a].respStatus
                 /\ req[a].pc = "done" =>
                        req[a].written = <<BodyWrite(req[a].respBody)>>)
    /\ [][\A b \in Reqs :
             /\ (req[b].pc = "dispatched" /\ Accepted(b)') =>
                    /\ CheckPunctuationHeuristic(punctuationEndCount, req'[b].respBody,
                           req[b].provider, settings.EnablePunctuationHeuristic).ret
                    /\ req'[b].unhealthy = req[b].unhealthy
                    /\ req'[b].retryErrors = req[b].retryErrors
                    /\ req'[b].retryCount = req[b].retryCount
                    /\ req'[b].dispatched = req[b].dispatched
                    /\ req'[b].written = <<>>
             /\ (Accepted(b) /\ req[b].pc = "respond" /\ req'[b] # req[b]) =>
                    /\ Accepted(b)' /\ req'[b].pc = "done"
                    /\ req'[b].unhealthy = req[b].unhealthy
                    /\ req'[b].retryErrors = req[b].retryErrors
                    /\ req'[b].dispatched = req[b].dispatched]_vars

\* A first answer that ends in a full stop and lacks the token, accepted on the
\* third such answer in a row and delivered with status 200, the key unmarked.
C28_Witness ==
    \E r \in Active :
        /\ Accepted(r) /\ Terminated(r)
        /\ req[r].validationResult.ErrorType = "INCOMPLETE_RESPONSE"
        /\ Len(req[r].dispatched) = 1
        /\ req[r].unhealthy = <<>> /\ req[r].retryErrors = <<>>
        /\ req[r].status = 200
        /\ req[r].written = <<BodyWrite(req[r].respBody)>>

\* The step of request r is the arrival of a response with status 404.
NotFoundStep(r) ==
    /\ req[r].pc = "dispatched"
    /\ Len(req'[r].received) = Len(req[r].received) + 1
    /\ req'[r].respStatus = 404

\* C29: a response with status 404 is not an HTTP failure: no record carries
\* the status 404; unless validation rejects its body the key is not marked,
\* no record is appended and no attempt follows; the client gets the status
\* 404 and the body, and the log record says success = false.
C29_NotFoundPassedOn ==
    /\ [](\A a \in Reqs :
             /\ \A i \in 1..Len(req[a].retryErrors) : req[a].retryErrors[i].StatusCode # 404
             /\ (Terminated(a) /\ req[a].outcome = "success" /\ req[a].respStatus = 404) =>
                    /\ req[a].status = 404
                    /\ LastOf(req[a].written) = BodyWrite(req[a].respBody)
                    /\ LastOf(req[a].logs).StatusCode = 404
                    /\ ~LastOf(req[a].logs).IsSuccess)
    /\ [][\A b \in Reqs :
             NotFoundStep(b) =>
                 /\ req'[b].pc = "attempt" =>
                        /\ settings.EnableAdvancedRetry
                        /\ ~req'[b].validationResult.IsValid
                        /\ LastOf(req'[b].retryErrors).StatusCode = 500
                 /\ req'[b].pc # "attempt" =>
                        /\ req'[b].unhealthy = req[b].unhealthy
                        /\ req'[b].retryErrors = req[b].retryErrors
                        /\ req'[b].retryCount = req[b].retryCount
                        /\ req'[b].status = 404
                        /\ req'[b].logs =
                               Append(req[b].logs,
                                      LogEntry(404, req[b].retryCount + 1, FALSE, req[b].apiKey))
                 /\ (~req[b].isStream /\ req'[b].pc # "attempt") =>
                        req'[b].pc = "respond"]_vars

\* A non-streaming request whose only attempt got a 404: done with the status
\* and the body passed on, the key unmarked, and one log record that says failure.
C29_Witness ==
    \E r \in Active :
        /\ Terminated(r) /\ req[r].outcome = "success" /\ ~req[r].isStream
        /\ req[r].respStatus = 404 /\ req[r].status = 404
        /\ req[r].MaxRetries >= 1 /\ req[r].retryCount = 0
        /\ Len(req[r].dispatched) = 1
        /\ req[r].unhealthy = <<>> /\ req[r].retryErrors = <<>>
        /\ req[r].written = <<BodyWrite(NotFoundBody)>>
        /\ Len(req[r].logs) = 1
        /\ req[r].logs[1].StatusCode = 404 /\ ~req[r].logs[1].IsSuccess

\* C30: within one attempt the engine acts on one reading of the settings: the
\* body handleNormalResponse writes is stripped or not by the value of
\* EnableCompletionCheck in the settings the validation and continuation
\* decisions of that attempt were taken with.
C30_SingleSnapshot ==
    [][\A r \in Reqs :
          (req[r].pc = "respond" /\ req'[r].pc = "done" /\ req[r].respRead) =>
              req'[r].written =
                  Append(req[r].written,
                         BodyWrite(handleNormalResponseBody(req[r].cfg, req[r].respBody,
                                                            req[r].provider)))]_vars

(***************************************************************************)
(* Properties of validation, override and delivery, checked under Spec.    *)
(***************************************************************************)
\* The step of request r is the arrival of a non-streaming response whose body
\* was read.
NormalArrival(r) ==
    /\ req[r].pc = "dispatched" /\ ~req[r].isStream
    /\ Len(req'[r].received) = Len(req[r].received) + 1
    /\ req'[r].respRead

\* The body has text, a normal stop and no token, and no other defect.
OnlyMissingToken(body) ==
    /\ isIncompleteResponse(body)
    /\ ~isEmptyResponse(body) /\ ~isBlockedResponse(body)
    /\ getAbnormalFinishReason(body) = ""

\* C31: with the completion check off, so that no directive was injected into
\* the request, and advanced retry on, a response with text, a normal stop and
\* no token is judged valid and is not retried.
C31_NoDirectiveNoTokenCheck ==
    [][\A r \in Reqs :
          (/\ NormalArrival(r)
           /\ settings.EnableAdvancedRetry /\ ~settings.EnableCompletionCheck
           /\ ~HasDirective(req[r].bodyBytes)
           /\ OnlyMissingToken(req'[r].respBody)) =>
              /\ req'[r].validationResult.IsValid
              /\ req'[r].pc = "respond"
              /\ req'[r].retryErrors = req[r].retryErrors]_vars

\* C32: only a response whose sole defect is the missing token is accepted by
\* the punctuation override; an empty-content, blocked-content or abnormal-finish
\* response is never accepted, whatever the streak and its final punctuation.
C32_OverrideOnlyMissingToken ==
    [][\A r \in Reqs :
          (/\ NormalArrival(r)
           /\ settings.EnableAdvancedRetry
           /\ ~req'[r].validationResult.IsValid
           /\ req'[r].validationResult.ErrorType
                  \in {"EMPTY_RESPONSE", "BLOCKED_CONTENT", "ABNORMAL_FINISH"}) =>
              req'[r].pc # "respond"]_vars

\* C33: when a streaming request ends in success, the client has received the
\* body of the accepted attempt once (with or without its token), and no bytes
\* of an earlier rejected attempt before it.
C33_StreamDeliveredOnce ==
    \A r \in Active :
        (/\ Terminated(r) /\ req[r].outcome = "success"
         /\ req[r].isStream /\ req[r].validationResult.IsValid) =>
            /\ Len(BodyWrites(r)) <= 1
            /\ \A i \in 1..Len(BodyWrites(r)) :
                   BodyWrites(r)[i].doc \in
                       {LastOf(req[r].received),
                        RemoveCompletionToken(LastOf(req[r].received), req[r].provider)}

(***************************************************************************)
(* Properties of the attempt records, the marks and the log.               *)
(***************************************************************************)
\* C34: at the entry of attempt n the request has exactly n attempt records,
\* numbered 1..n in order; a step never changes a record made earlier; and, with
\* MaxRetries not negative, exhaustion always finds a record.
C34_RecordsNumbered ==
    /\ [](\A r \in Active :
              /\ Len(req[r].retryErrors) = req[r].retryCount
              /\ \A i \in 1..Len(req[r].retryErrors) : req[r].retryErrors[i].Attempt = i
              /\ (/\ Terminated(r) /\ req[r].outcome = "exhausted"
                  /\ req[r].MaxRetries >= 0) => req[r].retryErrors # <<>>)
    /\ [][\A r \in Reqs :
              req[r].pc # "idle" =>
                  /\ Len(req'[r].retryErrors) >= Len(req[r].retryErrors)
                  /\ SubSeq(req'[r].retryErrors, 1, Len(req[r].retryErrors))
                         = req[r].retryErrors]_vars

\* The second retry is entered with two records, one made by the validation
\* branch and one by the failure branch.
C34_Witness ==
    \E r \in Active :
        /\ req[r].pc = "attempt" /\ req[r].retryCount = 2
        /\ req[r].retryErrors[1].Attempt = 1 /\ req[r].retryErrors[2].Attempt = 2
        /\ IsValidationRecord(req[r].retryErrors[2])
        /\ ~IsValidationRecord(req[r].retryErrors[1])

\* C35: the marks of unhealthy credentials match the attempt records one to
\* one, each mark being for the credential of its record; a mark is made only by
\* a step that appends a record and goes on to the next attempt, never by one
\* that ends in success, override acceptance, client abort or a failed selection.
C35_MarksMatchRecords ==
    /\ [](\A r \in Active :
              /\ Len(req[r].unhealthy) = Len(req[r].retryErrors)
              /\ \A i \in 1..Len(req[r].unhealthy) :
                     req[r].unhealthy[i] = req[r].retryErrors[i].KeyValue)
    /\ [][\A r \in Reqs :
              (req[r].pc # "idle" /\ req'[r].unhealthy # req[r].unhealthy) =>
                  /\ req[r].pc = "dispatched" /\ req'[r].pc = "attempt"
                  /\ req'[r].unhealthy = Append(req[r].unhealthy, req[r].apiKey)
                  /\ Len(req'[r].retryErrors) = Len(req[r].retryErrors) + 1
                  /\ LastOf(req'[r].retryErrors).KeyValue = req[r].apiKey]_vars

\* A request that succeeded on its second credential after one failed attempt
\* has one mark, for the first credential.
C35_Witness ==
    \E r \in Active :
        /\ Terminated(r) /\ req[r].outcome = "success"
        /\ Len(req[r].dispatched) = 2 /\ Len(req[r].retryErrors) = 1
        /\ req[r].unhealthy = <<req[r].retryErrors[1].KeyValue>>
        /\ req[r].apiKey # req[r].unhealthy[1]
        /\ ~req[r].validationResult.IsValid

\* C36: the retries field of every log record is the number of upstream
\* dispatches made so far for the request: n+1 when attempt n succeeds or is
\* aborted by the client, n when the selection of a credential fails at attempt
\* n, and MaxRetries+1 on exhaustion.
C36_RetriesFieldCountsDispatches ==
    [][\A r \in Reqs :
          (req[r].pc # "idle" /\ req'[r].logs # req[r].logs) =>
              /\ Len(req'[r].logs) = Len(req[r].logs) + 1
              /\ SubSeq(req'[r].logs, 1, Len(req[r].logs)) = req[r].logs
              /\ LastOf(req'[r].logs).Retries = Len(req'[r].dispatched)
              /\ (\/ req'[r].pc = "respond"
                  \/ req'[r].pc = "done" /\ req'[r].outcome \in {"success", "abort"}) =>
                     LastOf(req'[r].logs).Retries = req[r].retryCount + 1
              /\ (req'[r].pc = "done" /\ req'[r].outcome = "nokey") =>
                     LastOf(req'[r].logs).Retries = req[r].retryCount
              /\ (req'[r].pc = "done" /\ req'[r].outcome = "exhausted") =>
                     LastOf(req'[r].logs).Retries = req[r].MaxRetries + 1]_vars

\* A request aborted by its client during the second attempt has logged 2.
C36_Witness ==
    \E r \in Active :
        /\ Terminated(r) /\ req[r].outcome = "abort"
        /\ req[r].retryCount = 1 /\ Len(req[r].dispatched) = 2
        /\ LastOf(req[r].logs).Retries = 2

(***************************************************************************)
(* Properties of the request bodies of a chain, checked under ChainSpec    *)
(* and ConcSpec.                                                           *)
(***************************************************************************)
RECURSIVE DirectivesIn(_)
\* The number of copies of the directive in a list of turns.
DirectivesIn(turns) ==
    IF turns = <<>> THEN 0 ELSE Head(turns).dir + DirectivesIn(Tail(turns))

\* The number of copies of the directive in a request body.
DirectiveCount(doc) ==
    doc.sysDir + doc.instrDir + DirectivesIn(doc.msgs) + DirectivesIn(doc.contents)

\* C37: the directive is injected once, before the first attempt: the body
\* dispatched at any attempt carries it at most once, and no step after the
\* injection adds a copy, whatever retries and continuation rewrites happen.
C37_DirectiveAtMostOnce ==
    /\ [](\A r \in Active :
              /\ DirectiveCount(req[r].bodyBytes) <= 1
              /\ \A i \in 1..Len(req[r].dispatched) :
                     DirectiveCount(req[r].dispatched[i]) <= 1)
    /\ [][\A r \in Reqs :
              req[r].pc \notin {"idle", "start"} =>
                  DirectiveCount(req'[r].bodyBytes) <= DirectiveCount(req[r].bodyBytes)]_vars

\* Three attempts were dispatched: the first two with the injected body (a
\* failure retry between them), the third with a continuation rewrite.
C37_Witness ==
    \E r \in Active :
        /\ Len(req[r].dispatched) = 3
        /\ req[r].inbound.json /\ DirectiveCount(req[r].inbound) = 0
        /\ DirectiveCount(req[r].dispatched[1]) = 1
        /\ req[r].dispatched[2] = req[r].dispatched[1]
        /\ req[r].dispatched[3] # req[r].dispatched[2]
        /\ req[r].accumulatedText # <<>>

RECURSIVE OwnAccumulated(_, _)
\* The text accumulated from the first k responses of request r alone.
OwnAccumulated(r, k) ==
    IF k = 0 THEN <<>>
    ELSE CapAccumulated(OwnAccumulated(r, k - 1)
                            \o ExtractAccumulatedText(req[r].received[k], req[r].provider),
                        settings.MaxAccumulatedChars)

\* C38: with two requests in progress at once, the accumulated text of each is
\* built from the responses of its own rejected attempts only, its continuation
\* body is built from that text, and each request starts with empty text.
C38_OwnTextOnly ==
    \A r \in Active :
        /\ Len(req[r].received) >= req[r].retryCount
        /\ req[r].accumulatedText = OwnAccumulated(r, req[r].retryCount)
        /\ req[r].retryCount = 0 => req[r].accumulatedText = <<>>
        /\ (req[r].retryCount > 0 /\ settings.EnableContextRetry) =>
               LET last == req[r].received[req[r].retryCount]
                   own == OwnAccumulated(r, req[r].retryCount)
                   built == BuildRetryRequest(last, own, req[r].provider)
               IN req[r].bodyBytes =
                      IF TrimSpace(own) = <<>> \/ built.err THEN last ELSE built.body

\* Both requests have been retried and hold different texts, each its own.
C38_Witness ==
    /\ req[1].retryCount = 1 /\ req[2].retryCount = 1
    /\ req[1].accumulatedText # <<>> /\ req[2].accumulatedText # <<>>
    /\ req[1].accumulatedText # req[2].accumulatedText
    /\ req[1].bodyBytes # req[2].bodyBytes

====
